---- MODULE Spec2Model ----
(***************************************************************************)
(* Orchestration kernel of ocestrater: trust engine (trust.rs), PTY        *)
(* session manager (pty_manager.rs), workspace manager (workspace.rs) and  *)
(* the command handlers that combine them (commands.rs).                   *)
(***************************************************************************)
EXTENDS Integers, Sequences, FiniteSets, TLC

VARIABLES
    files,        \* per repo: bytes of .ocestrater/config.json and snippets.json
    trust_store,  \* ~/.ocestrater/trust.json: trust_all_repos and repos
    granted,      \* history: per repo, the file contents read by the last grant_trust
    revoked,      \* history: repos revoked and not granted again since
    last_status,  \* history: repo and result of a check_trust call, until the next write
    sessions,     \* PtyManager.sessions: workspace id -> session (0: none)
    procs,        \* per session ever spawned: liveness cell, child, writer, reader thread
    pty_last,     \* history: the last PtyManager call and its result
    workspaces,   \* WorkspaceManager.workspaces: workspace id -> WorkspaceInfo
    ws_used,      \* ids Uuid::new_v4 has handed out
    merging,      \* merge_workspace calls past their state check: id and position
    ws_last,      \* history: the last WorkspaceManager call or merge_workspace check
    repo_configs, \* ConfigStore.repo_configs: per repo, the config.json loaded at startup
    global_snippets, \* ~/.ocestrater/snippets.json: command of each snippet name
    cmd,          \* the command invocation in progress (or the last one): position, locals
    trust_lock,   \* trust_file_lock(): the thread that holds it, or "free"
    tcalls,       \* per thread: the trust.rs call it is in, step by step
    ideal,        \* history: the trust store had every saved call run alone, in save order
    lock_owner,   \* per mutex of the application: the thread that holds it, or "free"
    threads,      \* per thread: the handler it runs, instruction by instruction
    pty_registered, \* sessions in the PTY registry, as the lock-level handlers see it
    fn_in,        \* the arguments of the last call of a function without state
    fn_out,       \* what that call returned
    spawned_with, \* history: per session ever spawned, the model given to build_command
    snippet_run,  \* the background thread of one run_snippet_v2 call, its child and events
    secret_store, \* KeychainStore: OS keychain, in-memory cache and on-disk index
    git_repo      \* the repository a merge_branch call works on, and the call's position

trustVars == <<files, trust_store, granted, revoked, last_status>>
ptyVars == <<sessions, procs, pty_last>>

wsVars == <<workspaces, ws_used, merging, ws_last>>

cmdVars == <<repo_configs, global_snippets, cmd>>

concVars == <<trust_lock, tcalls, ideal>>
lockVars == <<lock_owner, threads, pty_registered>>
fnVars == <<fn_in, fn_out, spawned_with>>
sysVars == <<snippet_run, secret_store, git_repo>>
auxVars == <<concVars, lockVars, fnVars, sysVars>>
cmdEnvVars == <<repo_configs, global_snippets, auxVars>>

nonTrustVars == <<ptyVars, wsVars, cmdVars, auxVars>>
nonPtyVars == <<trustVars, wsVars, cmdVars, auxVars>>
nonWsVars == <<trustVars, ptyVars, cmdVars, auxVars>>

vars == <<trustVars, ptyVars, wsVars, cmdVars, auxVars>>

(***************************************************************************)
(* Values                                                                  *)
(***************************************************************************)
\* The repos of a run are the domain of files (chosen by each specification's Init).
Repos == DOMAIN files

\* Option values: None is the empty tuple, hashes are tuples, records stand for
\* structs; an absent map entry is a record of another shape.
None == <<>>
NoEntry == [entry |-> "none"]
NoGrant == [grant |-> "none"]
NoStatus == [status |-> "none"]
NoScript == "NoScript"

\* Contents of <repo>/.ocestrater/config.json.  "missing": no such file;
\* "empty": a file of zero bytes; the others are JSON documents.
\* cfgA and cfgA2 differ in bytes and hold the same setup_script; cfgN holds none.
ConfigContents == {"missing", "empty", "cfgA", "cfgA2", "cfgB", "cfgN"}

\* The setup_script field of a config.json document (RepoConfig.setup_script).
SetupScriptOf(c) ==
    CASE c \in {"cfgA", "cfgA2"} -> "scriptA"
      [] c = "cfgB" -> "scriptB"
      [] OTHER -> NoScript

SnippetNames == {"sn"}
Commands == {"cmd1", "cmd2"}
NoCmd == "NoCmd"

\* Contents of a snippets.json: missing, zero bytes, or a SnippetFile document,
\* given by the command of each snippet name it holds.
NoSnippets == [n \in SnippetNames |-> NoCmd]
SnippetsContents ==
    {[kind |-> "missing", cmds |-> NoSnippets], [kind |-> "empty", cmds |-> NoSnippets]}
    \cup [kind : {"doc"}, cmds : [SnippetNames -> Commands \cup {NoCmd}]]

FileStates == [config : ConfigContents, snippets : SnippetsContents]

Trusted == [type |-> "trusted"]
Untrusted == [type |-> "untrusted"]
Changed(changed_files) == [type |-> "changed", changed_files |-> changed_files]

(***************************************************************************)
(* trust.rs                                                                *)
(***************************************************************************)
\* SHA-256 is modelled as an injective tagging of the bytes it is given.
sha256_hex(data) == <<"sha256", data>>

compute_config_hash(r) ==
    LET content == files[r].config
    IN  IF content = "missing" THEN None
        ELSE IF content = "empty" THEN None
        ELSE sha256_hex(content)

compute_setup_script_hash_legacy(r) ==
    LET content == files[r].config
    IN  IF content = "missing" THEN None
        ELSE IF content = "empty" THEN None
        ELSE IF SetupScriptOf(content) = NoScript THEN None
        ELSE sha256_hex(SetupScriptOf(content))

compute_snippets_hash(r) ==
    LET content == files[r].snippets
    IN  IF content.kind = "missing" THEN None
        ELSE sha256_hex(content)

config_changed(entry, r) ==
    LET current_config_hash == compute_config_hash(r)
    IN  IF entry.config_hash # None \/ current_config_hash # None
        THEN current_config_hash # entry.config_hash
        ELSE IF entry.setup_script_hash # None
        THEN LET current_setup_hash == compute_setup_script_hash_legacy(r)
             IN  /\ current_setup_hash # entry.setup_script_hash
                 /\ (current_setup_hash # None \/ entry.setup_script_hash # None)
        ELSE FALSE

snippets_changed(entry, r) ==
    LET current_snippets_hash == compute_snippets_hash(r)
    IN  /\ current_snippets_hash # entry.snippets_hash
        /\ (current_snippets_hash # None \/ entry.snippets_hash # None)

\* check_trust on the store it has loaded.
check_trust_in(store, r) ==
    LET entry == store.repos[r]
    IN  IF store.trust_all_repos THEN Trusted
        ELSE IF entry = NoEntry THEN Untrusted
        ELSE IF ~entry.trusted THEN Untrusted
        ELSE LET changed_files ==
                     (IF config_changed(entry, r) THEN <<"config.json">> ELSE <<>>)
                     \o (IF snippets_changed(entry, r) THEN <<"snippets.json">> ELSE <<>>)
             IN  IF changed_files # <<>> THEN Changed(changed_files) ELSE Trusted

check_trust(r) == check_trust_in(trust_store, r)

grant_entry_nohash(r) ==
    [trusted |-> TRUE, config_hash |-> None, snippets_hash |-> None,
     setup_script_hash |-> None]

\* The TrustEntry grant_trust writes (trusted_at, a timestamp, is left out).
grant_entry(r) ==
    [trusted |-> TRUE,
     config_hash |-> compute_config_hash(r),
     snippets_hash |-> compute_snippets_hash(r),
     setup_script_hash |-> None]

revoke_entry_noop(entry) == entry

revoke_entry(entry) ==
    IF entry # NoEntry THEN [entry EXCEPT !.trusted = FALSE] ELSE entry

\* grant_trust(repo_path): load, insert the new entry, save; all under the file lock.
GrantTrust(r) ==
    /\ trust_store' = [trust_store EXCEPT !.repos[r] = grant_entry(r)]
    /\ granted' = [granted EXCEPT ![r] = files[r]]
    /\ revoked' = revoked \ {r}
    /\ last_status' = NoStatus
    /\ UNCHANGED <<files, nonTrustVars>>

\* revoke_trust(repo_path): load, clear the flag when the entry exists, save.
RevokeTrust(r) ==
    /\ trust_store' = [trust_store EXCEPT !.repos[r] = revoke_entry(@)]
    /\ revoked' = revoked \cup {r}
    /\ last_status' = NoStatus
    /\ UNCHANGED <<files, granted, nonTrustVars>>

\* check_trust(repo_path): read-only; the caller receives the status.
CheckTrust(r) ==
    /\ last_status' = [repo |-> r, status |-> check_trust(r)]
    /\ UNCHANGED <<files, trust_store, granted, revoked, nonTrustVars>>

\* The repo's config.json is rewritten, created, emptied or deleted on disk.
WriteConfigFile(r, c) ==
    /\ c # files[r].config
    /\ files' = [files EXCEPT ![r].config = c]
    /\ last_status' = NoStatus
    /\ UNCHANGED <<trust_store, granted, revoked, nonTrustVars>>

\* The repo's snippets.json is rewritten, created, emptied or deleted on disk.
WriteSnippetsFile(r, c) ==
    /\ c # files[r].snippets
    /\ files' = [files EXCEPT ![r].snippets = c]
    /\ last_status' = NoStatus
    /\ UNCHANGED <<trust_store, granted, revoked, nonTrustVars>>

\* A trust.json left by an earlier version: an entry with setup_script_hash only.
LegacyEntries ==
    {[trusted |-> TRUE, config_hash |-> None, snippets_hash |-> None,
      setup_script_hash |-> sha256_hex("scriptA")]}

\* The PTY manager at rest.
PtyIdle ==
    /\ sessions = <<>>
    /\ procs = <<>>
    /\ pty_last = [op |-> "none"]

\* The workspace manager at rest.
WsIdle ==
    /\ workspaces = <<>>
    /\ ws_used = {}
    /\ merging = {}
    /\ ws_last = [op |-> "none"]

\* No command has been invoked.
NoCommand ==
    [op |-> "none", pc |-> "done", repo |-> "none", id |-> "none", name |-> "none",
     script |-> NoScript, command |-> NoCmd, from_repo |-> FALSE, is_repo |-> FALSE,
     branch |-> "none", trust |-> NoStatus, guard |-> "none", setup |-> "none",
     ran |-> <<>>, spawn |-> "none", events |-> <<>>, returned |-> [ret |-> "none"]]

\* The command layer at rest.
CmdIdle ==
    /\ repo_configs = <<>>
    /\ global_snippets = <<>>
    /\ cmd = NoCommand

\* No thread is inside a trust.rs call.
ConcIdle ==
    /\ trust_lock = "free"
    /\ tcalls = <<>>
    /\ ideal = <<>>

\* No thread runs a handler.
LocksIdle ==
    /\ lock_owner = <<>>
    /\ threads = <<>>
    /\ pty_registered = {}

\* No function has been called.
FnIdle ==
    /\ fn_in = <<>>
    /\ fn_out = <<>>
    /\ spawned_with = <<>>

\* No snippet thread, no secret store and no merge in the run.
SysIdle ==
    /\ snippet_run = <<>>
    /\ secret_store = <<>>
    /\ git_repo = <<>>

AuxIdle == ConcIdle /\ LocksIdle /\ FnIdle /\ SysIdle

\* The trust engine alone, on one repo: the files and the trust.json found at startup.
TrustRepos == {"r1"}

TrustInit ==
    /\ files \in [TrustRepos -> FileStates]
    /\ \E all \in BOOLEAN, e \in {NoEntry} \cup LegacyEntries :
           trust_store = [trust_all_repos |-> all, repos |-> [r \in TrustRepos |-> e]]
    /\ granted = [r \in TrustRepos |-> NoGrant]
    /\ revoked = {}
    /\ last_status = NoStatus

TrustNext ==
    \/ \E r \in Repos : GrantTrust(r)
    \/ \E r \in Repos : RevokeTrust(r)
    \/ \E r \in Repos : CheckTrust(r)
    \/ \E r \in Repos, c \in ConfigContents : WriteConfigFile(r, c)
    \/ \E r \in Repos, c \in SnippetsContents : WriteSnippetsFile(r, c)

InitTrust == TrustInit /\ PtyIdle /\ WsIdle /\ CmdIdle /\ AuxIdle

SpecTrust == InitTrust /\ [][TrustNext]_vars

(***************************************************************************)
(* Claims on the trust engine (SpecTrust)                                  *)
(***************************************************************************)
\* The logical files whose content now differs from the content at grant time.
DiffFiles(r) ==
    (IF files[r].config # granted[r].config THEN <<"config.json">> ELSE <<>>)
    \o (IF files[r].snippets # granted[r].snippets THEN <<"snippets.json">> ELSE <<>>)

CheckedGranted(r) ==
    /\ last_status # NoStatus
    /\ last_status.repo = r
    /\ granted[r] # NoGrant
    /\ trust_store.repos[r] # NoEntry
    /\ trust_store.repos[r].trusted

\* C6: for a granted, trusted entry (trust_all_repos false) check_trust returns
\* Changed listing exactly the files (config.json first) whose content differs
\* from the content at grant time, created, deleted and emptied files included,
\* and Trusted only when neither differs.
C6_ChangedListsExactlyDifferingFiles ==
    \A r \in Repos :
        (CheckedGranted(r) /\ ~trust_store.trust_all_repos) =>
            last_status.status =
                IF DiffFiles(r) = <<>> THEN Trusted ELSE Changed(DiffFiles(r))

\* C7: after grant_trust(R), while R's files are as they were at the grant and
\* trust is not revoked, every check_trust(R) returns Trusted.
C7_GrantThenCheckTrusted ==
    \A r \in Repos :
        (CheckedGranted(r) /\ files[r] = granted[r]) => last_status.status = Trusted

C7_Witness ==
    \E r \in Repos :
        /\ CheckedGranted(r)
        /\ files[r] = granted[r]
        /\ files[r].config = "cfgA"
        /\ files[r].snippets.kind = "doc"
        /\ ~trust_store.trust_all_repos
        /\ last_status.status = Trusted

CheckedRevoked(r) ==
    /\ last_status # NoStatus
    /\ last_status.repo = r
    /\ r \in revoked

\* C8 as claimed: after revoke_trust(R) and until the next grant_trust(R),
\* check_trust(R) returns Untrusted whatever the files and the store hold.
C8_RevokedIsUntrusted ==
    \A r \in Repos : CheckedRevoked(r) => last_status.status = Untrusted

\* C8 amended: after revoke_trust(R) and until the next grant_trust(R),
\* check_trust(R) returns Untrusted, never Changed, whatever the files hold,
\* unless the store's trust_all_repos is true, and then it returns Trusted.
C8_RevokedIsUntrustedUnlessTrustAll ==
    \A r \in Repos :
        CheckedRevoked(r) =>
            last_status.status =
                IF trust_store.trust_all_repos THEN Trusted ELSE Untrusted

C8_Witness ==
    \E r \in Repos :
        /\ CheckedRevoked(r)
        /\ granted[r] # NoGrant
        /\ files[r] = granted[r]
        /\ trust_store.repos[r] # NoEntry
        /\ ~trust_store.trust_all_repos
        /\ last_status.status = Untrusted

\* C28: for a trusted entry with a setup_script_hash and no config_hash,
\* check_trust does not list config.json as changed when the hash of the
\* setup_script now in the repo's config.json equals the recorded one.
C28_LegacyHashDecidesConfig ==
    \A r \in Repos :
        (/\ last_status # NoStatus
         /\ last_status.repo = r
         /\ ~trust_store.trust_all_repos
         /\ trust_store.repos[r] # NoEntry
         /\ trust_store.repos[r].trusted
         /\ trust_store.repos[r].config_hash = None
         /\ trust_store.repos[r].setup_script_hash # None
         /\ compute_setup_script_hash_legacy(r) = trust_store.repos[r].setup_script_hash)
        => last_status.status \in {Trusted, Changed(<<"snippets.json">>)}

(***************************************************************************)
(* pty_manager.rs                                                          *)
(***************************************************************************)
\* defaults.max_concurrent_agents, handed to PtyManager::new as max_sessions.
max_sessions == 2
\* Sessions spawned in one run.
MaxSpawns == 3
\* Lines one reader reads.
MaxLines == 3

WorkspaceIds == {"w1", "w2", "w3"}
NoSession == 0
NoCall == [op |-> "none"]

Registered == {id \in DOMAIN sessions : sessions[id] # NoSession}

\* The preconditions of spawn, in the order the code tests them.
spawn_check_limit_off_by_one(id) ==
    IF Cardinality(Registered) > max_sessions THEN "SessionLimit"
    ELSE IF sessions[id] # NoSession THEN "Exists"
    ELSE "Ok"

spawn_check_no_exists(id) ==
    IF Cardinality(Registered) >= max_sessions THEN "SessionLimit"
    ELSE "Ok"

spawn_check(id) ==
    IF Cardinality(Registered) >= max_sessions THEN "SessionLimit"
    ELSE IF sessions[id] # NoSession THEN "Exists"
    ELSE "Ok"

\* A session as spawn leaves it: child running on the slave, writer held by the
\* registry, liveness cell true, reader thread in its read loop.
NewProc(id) ==
    [id |-> id, alive |-> TRUE, child |-> "running", writer |-> "open",
     reader |-> "reading", batch |-> <<>>, elapsed |-> 0, read |-> <<>>,
     emitted |-> <<>>]

\* spawn(workspace_id, ...), under the registry lock.  io_ok = FALSE: openpty,
\* spawn_command, try_clone_reader or take_writer failed (nothing is registered).
spawn_result(id, io_ok) ==
    IF spawn_check(id) = "Ok" /\ ~io_ok THEN "IoError" ELSE spawn_check(id)

pty_spawn(id, io_ok) ==
    /\ pty_last' = [op |-> "spawn", id |-> id, result |-> spawn_result(id, io_ok)]
    /\ IF spawn_result(id, io_ok) = "Ok"
       THEN /\ procs' = Append(procs, NewProc(id))
            /\ sessions' = [sessions EXCEPT ![id] = Len(procs) + 1]
       ELSE UNCHANGED <<sessions, procs>>

Spawn(id, io_ok) ==
    /\ spawn_result(id, io_ok) = "Ok" => Len(procs) < MaxSpawns
    /\ pty_spawn(id, io_ok)
    /\ UNCHANGED nonPtyVars

Kill_keeps_session(id) ==
    /\ pty_last' = [op |-> "kill", id |-> id, result |-> "Ok"]
    /\ IF sessions[id] # NoSession
       THEN /\ procs' = [procs EXCEPT ![sessions[id]].alive = FALSE,
                                      ![sessions[id]].writer = "dropped"]
            /\ UNCHANGED sessions
       ELSE UNCHANGED <<sessions, procs>>
    /\ UNCHANGED nonPtyVars

\* kill(workspace_id), under the registry lock: remove, alive = false, drop writer.
pty_kill(id) ==
    /\ pty_last' = [op |-> "kill", id |-> id, result |-> "Ok"]
    /\ IF sessions[id] # NoSession
       THEN /\ sessions' = [sessions EXCEPT ![id] = NoSession]
            /\ procs' = [procs EXCEPT ![sessions[id]].alive = FALSE,
                                      ![sessions[id]].writer = "dropped"]
       ELSE UNCHANGED <<sessions, procs>>

Kill(id) ==
    /\ pty_kill(id)
    /\ UNCHANGED nonPtyVars

is_alive(id) == sessions[id] # NoSession /\ procs[sessions[id]].alive

active_sessions == {id \in DOMAIN sessions : is_alive(id)}

\* The agent process ends by itself; its side of the PTY closes.
ChildExit(s) ==
    /\ procs[s].child = "running"
    /\ procs' = [procs EXCEPT ![s].child = "exited"]
    /\ pty_last' = NoCall
    /\ UNCHANGED <<sessions, nonPtyVars>>

BATCH_INTERVAL_MS == 16
\* The length a batch must exceed to be flushed before the interval has passed.
BatchMaxLen == 4096

\* What the child writes: lines of text ended by "\n" or "\r\n".
Texts == {"l1", "l2", "long"}
Terminators == {"\n", "\r\n"}
RawLines == [text : Texts, term : Terminators]

\* BufRead::lines yields the text without its terminator.
lines_next(raw) == raw.text

\* String::len of a piece of a batch, in bytes.
PieceLen(piece) == IF piece = "long" THEN BatchMaxLen ELSE 1

RECURSIVE BatchLen(_)
BatchLen(batch) ==
    IF batch = <<>> THEN 0 ELSE PieceLen(Head(batch)) + BatchLen(Tail(batch))

PtyOutput(id, payload) == [name |-> "pty-output", id |-> id, payload |-> payload]
PtyExit(id) == [name |-> "pty-exit", id |-> id]

emit_batch_keeps(p) ==
    [p EXCEPT !.emitted = Append(@, PtyOutput(p.id, p.batch)), !.elapsed = 0]

\* handle.emit("pty-output-<id>", batch.clone()); batch.clear(); last_flush = now.
emit_batch(p) ==
    [p EXCEPT !.emitted = Append(@, PtyOutput(p.id, p.batch)), !.batch = <<>>,
              !.elapsed = 0]

\* Time passes: BATCH_INTERVAL_MS or more since last_flush.
Tick(s) ==
    /\ procs[s].reader = "reading"
    /\ procs[s].elapsed < BATCH_INTERVAL_MS
    /\ procs' = [procs EXCEPT ![s].elapsed = BATCH_INTERVAL_MS]
    /\ pty_last' = NoCall
    /\ UNCHANGED <<sessions, nonPtyVars>>

\* Reader thread, one turn of the loop: the child has written a line; it is
\* pushed on the batch with a newline, and the batch is emitted when the
\* interval has passed or the batch is longer than BatchMaxLen.
ReaderLine(s, raw) ==
    /\ procs[s].reader = "reading"
    /\ procs[s].child = "running"
    /\ Len(procs[s].read) < MaxLines
    /\ LET pushed == [procs[s] EXCEPT !.batch = @ \o <<lines_next(raw), "\n">>,
                                      !.read = Append(@, lines_next(raw))]
       IN  procs' = [procs EXCEPT ![s] =
                        IF \/ pushed.elapsed >= BATCH_INTERVAL_MS
                           \/ BatchLen(pushed.batch) > BatchMaxLen
                        THEN emit_batch(pushed) ELSE pushed]
    /\ pty_last' = NoCall
    /\ UNCHANGED <<sessions, nonPtyVars>>

\* Why the read loop ends: end of input once the child is gone, or an Err
\* from lines() (a line that is not UTF-8, an I/O error).
EndReasons == {"eof", "error"}

ReaderEof_no_flush(s, why) ==
    /\ procs[s].reader = "reading"
    /\ why = "eof" => procs[s].child = "exited"
    /\ procs' = [procs EXCEPT ![s].reader = "flushed"]
    /\ pty_last' = NoCall
    /\ UNCHANGED <<sessions, nonPtyVars>>

\* Reader thread: the read loop ends and what is left of the batch is emitted.
ReaderEof(s, why) ==
    /\ procs[s].reader = "reading"
    /\ why = "eof" => procs[s].child = "exited"
    /\ procs' = [procs EXCEPT ![s] =
                    [(IF procs[s].batch # <<>> THEN emit_batch(procs[s]) ELSE procs[s])
                        EXCEPT !.reader = "flushed"]]
    /\ pty_last' = NoCall
    /\ UNCHANGED <<sessions, nonPtyVars>>

ReaderMarkDead_by_id(s) ==
    /\ procs[s].reader = "flushed"
    /\ procs' = IF sessions[procs[s].id] # NoSession
                THEN [procs EXCEPT ![s].reader = "marked",
                                   ![sessions[procs[s].id]].alive = FALSE]
                ELSE [procs EXCEPT ![s].reader = "marked"]
    /\ pty_last' = NoCall
    /\ UNCHANGED <<sessions, nonPtyVars>>

ReaderMarkDead_toggles(s) ==
    /\ procs[s].reader = "flushed"
    /\ procs' = [procs EXCEPT ![s].reader = "marked", ![s].alive = ~procs[s].alive]
    /\ pty_last' = NoCall
    /\ UNCHANGED <<sessions, nonPtyVars>>

\* Reader thread: *alive = false, under the liveness cell's lock.
ReaderMarkDead(s) ==
    /\ procs[s].reader = "flushed"
    /\ procs' = [procs EXCEPT ![s].reader = "marked", ![s].alive = FALSE]
    /\ pty_last' = NoCall
    /\ UNCHANGED <<sessions, nonPtyVars>>

\* Reader thread: emits pty-exit-<id> and ends.
ReaderEmitExit(s) ==
    /\ procs[s].reader = "marked"
    /\ procs' = [procs EXCEPT ![s].reader = "done",
                              ![s].emitted = Append(@, PtyExit(procs[s].id))]
    /\ pty_last' = NoCall
    /\ UNCHANGED <<sessions, nonPtyVars>>

\* PtyManager::new: no session.
PtyInit ==
    /\ sessions = [id \in WorkspaceIds |-> NoSession]
    /\ procs = <<>>
    /\ pty_last = NoCall

PtyNext ==
    \/ \E id \in WorkspaceIds : Spawn(id, TRUE)
    \/ \E id \in WorkspaceIds : Kill(id)
    \/ \E s \in DOMAIN procs : ChildExit(s)
    \/ \E s \in DOMAIN procs : ReaderEof(s, "eof")
    \/ \E s \in DOMAIN procs : ReaderMarkDead(s)
    \/ \E s \in DOMAIN procs : ReaderEmitExit(s)

\* The trust engine at rest: no repo, an empty store.
TrustIdle ==
    /\ files = <<>>
    /\ trust_store = [trust_all_repos |-> FALSE, repos |-> <<>>]
    /\ granted = <<>>
    /\ revoked = {}
    /\ last_status = NoStatus

InitPty == PtyInit /\ TrustIdle /\ WsIdle /\ CmdIdle /\ AuxIdle

SpecPty == InitPty /\ [][PtyNext]_vars

(***************************************************************************)
(* Claims on the PTY session manager (SpecPty)                             *)
(***************************************************************************)
\* C2: the registry never holds more than max_concurrent_agents sessions, and a
\* spawn called on a registry that holds that many fails with SessionLimit and
\* adds nothing.
C2_SessionLimit ==
    [][/\ Cardinality(Registered') <= max_sessions
       /\ (pty_last'.op = "spawn" /\ Cardinality(Registered) >= max_sessions) =>
              /\ pty_last'.result = "SessionLimit"
              /\ sessions' = sessions
              /\ procs' = procs]_vars

C2_Witness ==
    /\ pty_last.op = "spawn"
    /\ pty_last.result = "SessionLimit"
    /\ sessions[pty_last.id] = NoSession
    /\ Cardinality(Registered) = max_sessions
    /\ \E s \in DOMAIN procs : procs[s].reader = "done" /\ sessions[procs[s].id] = s

\* C3 as claimed: spawn(id) while id has a session is rejected with Exists,
\* starts no child and no reader, and leaves the registry unchanged.
C3_SpawnOnRegisteredIsExists ==
    [][(pty_last'.op = "spawn" /\ sessions[pty_last'.id] # NoSession) =>
           /\ pty_last'.result = "Exists"
           /\ sessions' = sessions
           /\ procs' = procs]_vars

\* C3 amended: spawn(id) while id has a session is rejected, with SessionLimit
\* when the registry holds max_concurrent_agents sessions (that test comes
\* first) and with Exists otherwise; it starts no child and no reader and leaves
\* the registry unchanged, so no id ever has two sessions.
C3_SpawnOnRegisteredIsRejected ==
    [][(pty_last'.op = "spawn" /\ sessions[pty_last'.id] # NoSession) =>
           /\ pty_last'.result =
                  IF Cardinality(Registered) >= max_sessions
                  THEN "SessionLimit" ELSE "Exists"
           /\ sessions' = sessions
           /\ procs' = procs]_vars

C3_Witness ==
    /\ pty_last.op = "spawn"
    /\ pty_last.result = "Exists"
    /\ sessions[pty_last.id] # NoSession
    /\ procs[sessions[pty_last.id]].reader = "reading"

(***************************************************************************)
(* workspace.rs: the workspace registry; commands.rs: merge_workspace       *)
(***************************************************************************)
\* The id of a record that is not in the map.
NoWorkspace == [state |-> "Absent"]

WorkspaceStates == {"Creating", "Running", "Stopping", "Stopped", "Cleaning"}

WsRepo == "r1"
Branches == {"b1"}
WorktreeDir == ".worktrees"
DefaultAgent == "claude"

\* The WorkspaceInfo that create inserts: worktree_path is
\* canonical_repo/worktree_dir/<branch>-<id>.
NewWorkspace(id, branch) ==
    [id |-> id, repo_path |-> WsRepo, branch |-> branch,
     worktree_path |-> <<WsRepo, WorktreeDir, branch, id>>,
     agent |-> DefaultAgent, state |-> "Creating"]

\* What create meets on its way: repo without .git, a worktree_dir that leaves
\* the repo, git that cannot be executed, git worktree add failing, success.
CreateOutcomes == {"NotAGitRepo", "PathEscape", "ExecError", "GitFailed", "Ok"}

\* WorkspaceManager::create with a fresh uuid id.
ws_create(id, branch, o) ==
    /\ id \notin ws_used
    /\ IF o \in {"NotAGitRepo", "PathEscape"}
       THEN /\ UNCHANGED <<workspaces, ws_used>>
            /\ ws_last' = [op |-> "create", id |-> id, result |-> o]
       ELSE /\ ws_used' = ws_used \cup {id}
            /\ ws_last' = [op |-> "create", id |-> id, result |-> o]
            /\ workspaces' =
                  CASE o = "ExecError" ->
                           [workspaces EXCEPT ![id] = NewWorkspace(id, branch)]
                    [] o = "GitFailed" -> workspaces
                    [] OTHER ->
                           [workspaces EXCEPT ![id] =
                               [NewWorkspace(id, branch) EXCEPT !.state = "Running"]]

ws_stop_rejects_stopped(id) ==
    IF workspaces[id] = NoWorkspace \/ workspaces[id].state = "Stopped"
    THEN /\ ws_last' = [op |-> "stop", id |-> id, result |-> "NotFound"]
         /\ UNCHANGED <<workspaces, ws_used>>
    ELSE /\ ws_last' = [op |-> "stop", id |-> id, result |-> "Ok",
                         was |-> workspaces[id].state]
         /\ workspaces' = [workspaces EXCEPT ![id].state = "Stopped"]
         /\ UNCHANGED ws_used

\* WorkspaceManager::stop: Stopping, then Stopped, inside one call.
ws_stop(id) ==
    IF workspaces[id] = NoWorkspace
    THEN /\ ws_last' = [op |-> "stop", id |-> id, result |-> "NotFound"]
         /\ UNCHANGED <<workspaces, ws_used>>
    ELSE /\ ws_last' = [op |-> "stop", id |-> id, result |-> "Ok",
                         was |-> workspaces[id].state]
         /\ workspaces' = [workspaces EXCEPT ![id].state = "Stopped"]
         /\ UNCHANGED ws_used

remove_check_unless_stopped(id) ==
    IF workspaces[id] = NoWorkspace THEN "NotFound"
    ELSE IF workspaces[id].state # "Stopped" THEN "RunningWorkspace"
    ELSE "Ok"

\* WorkspaceManager::remove, its tests before anything is changed.
remove_check(id) ==
    IF workspaces[id] = NoWorkspace THEN "NotFound"
    ELSE IF workspaces[id].state = "Running" THEN "RunningWorkspace"
    ELSE "Ok"

\* What git worktree remove does: cannot be executed, fails, succeeds.
RemoveOutcomes == {"ExecError", "GitFailed", "Ok"}

\* WorkspaceManager::remove.
ws_remove(id, o) ==
    LET res == remove_check(id)
    IN  /\ UNCHANGED ws_used
        /\ IF res # "Ok"
           THEN /\ ws_last' = [op |-> "remove", id |-> id, result |-> res]
                /\ UNCHANGED workspaces
           ELSE IF o = "ExecError"
           THEN /\ ws_last' = [op |-> "remove", id |-> id, result |-> "ExecError"]
                /\ workspaces' = [workspaces EXCEPT ![id].state = "Cleaning"]
           ELSE /\ ws_last' = [op |-> "remove", id |-> id, result |-> "Ok"]
                /\ workspaces' = [workspaces EXCEPT ![id] = NoWorkspace]

merge_check_no_state(id) ==
    IF workspaces[id] = NoWorkspace THEN "NotFound" ELSE "Ok"

\* merge_workspace, its tests under the workspace lock.
merge_check(id) ==
    IF workspaces[id] = NoWorkspace THEN "NotFound"
    ELSE IF workspaces[id].state = "Running" THEN "RunningWorkspace"
    ELSE "Ok"

WsCreate(id, branch, o) ==
    /\ ws_create(id, branch, o)
    /\ UNCHANGED <<merging, nonWsVars>>

WsStop(id) ==
    /\ ws_stop(id)
    /\ UNCHANGED <<merging, nonWsVars>>

WsRemove(id, o) ==
    /\ ws_remove(id, o)
    /\ UNCHANGED <<merging, nonWsVars>>

\* merge_workspace up to drop(ws): look the record up, test its state, copy
\* its paths, release the lock.
MergeCheck(id) ==
    /\ ws_last' = [op |-> "merge", id |-> id, result |-> merge_check(id)]
    /\ merging' = IF merge_check(id) = "Ok"
                  THEN merging \cup {[id |-> id, pc |-> "detect"]}
                  ELSE merging
    /\ UNCHANGED <<workspaces, ws_used, nonWsVars>>

\* detect_worktree_branch (git rev-parse in the worktree), without the lock.
MergeDetectBranch(m, ok) ==
    /\ m \in merging
    /\ m.pc = "detect"
    /\ merging' = IF ok
                  THEN (merging \ {m}) \cup {[id |-> m.id, pc |-> "merge"]}
                  ELSE merging \ {m}
    /\ ws_last' = [op |-> "none"]
    /\ UNCHANGED <<workspaces, ws_used, nonWsVars>>

\* detect_base_branch and merge_branch run to their end, without the lock.
MergeBranch(m) ==
    /\ m \in merging
    /\ m.pc = "merge"
    /\ merging' = merging \ {m}
    /\ ws_last' = [op |-> "none"]
    /\ UNCHANGED <<workspaces, ws_used, nonWsVars>>

\* WorkspaceManager::new: no record.
WsInit ==
    /\ workspaces = [id \in WorkspaceIds |-> NoWorkspace]
    /\ ws_used = {}
    /\ merging = {}
    /\ ws_last = [op |-> "none"]

WsNext ==
    \/ \E id \in WorkspaceIds, b \in Branches, o \in CreateOutcomes : WsCreate(id, b, o)
    \/ \E id \in WorkspaceIds : WsStop(id)
    \/ \E id \in WorkspaceIds, o \in RemoveOutcomes : WsRemove(id, o)
    \/ \E id \in WorkspaceIds : MergeCheck(id)
    \/ \E m \in merging, ok \in BOOLEAN : MergeDetectBranch(m, ok)
    \/ \E m \in merging : MergeBranch(m)

InitWs == WsInit /\ TrustIdle /\ PtyIdle /\ CmdIdle /\ AuxIdle

SpecWs == InitWs /\ [][WsNext]_vars

(***************************************************************************)
(* Claims on the workspace registry (SpecWs)                               *)
(***************************************************************************)
\* C4: remove(id) fails with the running-workspace error exactly when the
\* record's state is Running, and then changes neither the record nor its
\* state; in every other state it is not rejected with that error; stop(id)
\* leaves the record Stopped, so a remove after it proceeds.
C4_RemoveRejectsExactlyRunning ==
    [][/\ ws_last'.op = "remove" =>
              /\ (ws_last'.result = "RunningWorkspace") <=>
                     (workspaces[ws_last'.id].state = "Running")
              /\ ws_last'.result = "RunningWorkspace" => workspaces' = workspaces
       /\ (ws_last'.op = "stop" /\ ws_last'.result = "Ok") =>
              workspaces'[ws_last'.id].state = "Stopped"]_vars

C4_Witness ==
    /\ ws_last.op = "remove"
    /\ ws_last.result = "RunningWorkspace"
    /\ workspaces[ws_last.id].state = "Running"
    /\ \E id \in WorkspaceIds : id \in ws_used /\ workspaces[id] = NoWorkspace

\* C5: merge_workspace on a record whose state is Running returns the
\* running-workspace error and starts no git operation (on an absent id it
\* returns not-found); and while a merge that passed the test is running, its
\* workspace is never Running.
C5_NoMergeOfRunning ==
    [][/\ (ws_last'.op = "merge" /\ workspaces[ws_last'.id].state = "Running") =>
              /\ ws_last'.result = "RunningWorkspace"
              /\ merging' = merging
       /\ (ws_last'.op = "merge" /\ workspaces[ws_last'.id] = NoWorkspace) =>
              /\ ws_last'.result = "NotFound"
              /\ merging' = merging
       /\ \A m \in merging' : workspaces'[m.id].state # "Running"]_vars

C5_Witness ==
    /\ ws_last.op = "merge"
    /\ ws_last.result = "RunningWorkspace"
    /\ workspaces[ws_last.id].state = "Running"
    /\ \E m \in merging : m.pc = "merge" /\ workspaces[m.id].state = "Stopped"

\* How far along Creating -> Running -> Stopping -> Stopped -> Cleaning ->
\* removed the record of id is; 0 before create has inserted it.
LifecycleRank(ws, used) ==
    CASE ws = NoWorkspace -> IF used THEN 6 ELSE 0
      [] ws.state = "Creating" -> 1
      [] ws.state = "Running" -> 2
      [] ws.state = "Stopping" -> 3
      [] ws.state = "Stopped" -> 4
      [] OTHER -> 5

\* C21: no create, stop or remove call, failed or not, moves a workspace record
\* to an earlier state of Creating -> Running -> Stopping -> Stopped ->
\* Cleaning -> removed.
C21_StateOnlyMovesForward ==
    [][\A id \in DOMAIN workspaces :
           LifecycleRank(workspaces'[id], id \in ws_used') >=
               LifecycleRank(workspaces[id], id \in ws_used)]_vars

\* C22: a create that fails at the git worktree add step (git exits non-zero
\* or cannot be executed) leaves no record for the new id; a create that
\* succeeds leaves the record in state Running.
C22_FailedCreateLeavesNoRecord ==
    [][ws_last'.op = "create" =>
           /\ ws_last'.result \in {"ExecError", "GitFailed"} =>
                  workspaces'[ws_last'.id] = NoWorkspace
           /\ ws_last'.result = "Ok" =>
                  workspaces'[ws_last'.id].state = "Running"]_vars

\* C23: remove(id) on an existing record that is not Running returns Ok and
\* erases the record, whatever git worktree remove does.
C23_RemoveAlwaysErases ==
    [][(/\ ws_last'.op = "remove"
        /\ workspaces[ws_last'.id] # NoWorkspace
        /\ workspaces[ws_last'.id].state # "Running") =>
           /\ ws_last'.result = "Ok"
           /\ workspaces'[ws_last'.id] = NoWorkspace]_vars

\* C24: stop(id) on an existing record returns Ok and changes nothing but
\* that record's state, which becomes Stopped (so a stop of a Stopped record
\* changes nothing); stop on an absent id returns NotFound and changes nothing.
C24_StopIsIdempotent ==
    [][\A id \in DOMAIN workspaces :
           (ws_last'.op = "stop" /\ ws_last'.id = id) =>
               IF workspaces[id] = NoWorkspace
               THEN ws_last'.result = "NotFound" /\ workspaces' = workspaces
               ELSE /\ ws_last'.result = "Ok"
                    /\ workspaces' = [workspaces EXCEPT ![id].state = "Stopped"]
                    /\ workspaces[id].state = "Stopped" => workspaces' = workspaces]_vars

\* A stop of a record that a stop had already left Stopped.
C24_Witness ==
    /\ ws_last.op = "stop"
    /\ ws_last.result = "Ok"
    /\ ws_last.was = "Stopped"
    /\ workspaces[ws_last.id].state = "Stopped"
    /\ \E id \in DOMAIN workspaces : workspaces[id].state = "Running"

\* C25: no two workspace records carry the same branch value.
C25_BranchIsUnique ==
    \A a, b \in DOMAIN workspaces :
        (a # b /\ workspaces[a] # NoWorkspace /\ workspaces[b] # NoWorkspace) =>
            workspaces[a].branch # workspaces[b].branch

(***************************************************************************)
(* commands.rs: the handlers that run shell strings                        *)
(***************************************************************************)
\* RepoConfig.snippets of a config.json content: the legacy name -> script map.
LegacySnippetsOf(c) ==
    [n \in SnippetNames |-> IF c = "cfgA2" THEN "cmd1" ELSE NoCmd]

\* snippets::resolve_snippet: the repo store first, then the global store.
resolve_snippet(r, n) ==
    IF files[r].snippets.cmds[n] # NoCmd
    THEN files[r].snippets.cmds[n]
    ELSE global_snippets[n]

is_repo_snippet(r, n) == files[r].snippets.cmds[n] # NoCmd

NotReturned == [ret |-> "none"]
Ok(v) == [ok |-> v]
Err(e) == [err |-> e]

TrustRequired(id, r, script, changed_files) ==
    [name |-> "trust-required", workspace_id |-> id, repo_path |-> r,
     script_content |-> script, changed_files |-> changed_files]

SnippetOutput(id, text) ==
    [name |-> "snippet-output", workspace_id |-> id, text |-> text]

SnippetComplete(id, code) ==
    [name |-> "snippet-complete", workspace_id |-> id, code |-> code]

ExitCodes == {0, 1}

\* get_workspace_context: the record's repo_path, or "workspace not found".
context_found(id) == workspaces[id] # NoWorkspace

create_gate_only_untrusted(st) ==
    IF st = Untrusted THEN "trust_required" ELSE "run_setup"

\* create_workspace, the match on the trust status.
create_gate(st) ==
    IF st = Trusted THEN "run_setup" ELSE "trust_required"

changed_files_of(st) ==
    IF st.type = "changed" THEN st.changed_files ELSE <<>>

\* create_workspace up to drop(store): the repo is registered; agent,
\* worktree_dir and setup_script are read from the cached repo config.
CwBegin(r, b) ==
    /\ cmd.pc = "done"
    /\ \E id \in DOMAIN workspaces : id \notin ws_used
    /\ cmd' = [NoCommand EXCEPT !.op = "create_workspace", !.pc = "create",
                                !.repo = r, !.branch = b,
                                !.script = SetupScriptOf(repo_configs[r])]
    /\ UNCHANGED <<cmdEnvVars, trustVars, ptyVars, wsVars>>

\* ws_manager.create(...)? under the workspace lock.
CwCreate(id, o) ==
    /\ cmd.op = "create_workspace"
    /\ cmd.pc = "create"
    /\ ws_create(id, cmd.branch, o)
    /\ cmd' = IF o = "Ok"
              THEN [cmd EXCEPT !.id = id,
                               !.pc = IF cmd.script # NoScript
                                      THEN "check_trust" ELSE "spawn"]
              ELSE [cmd EXCEPT !.pc = "done", !.returned = Err(o)]
    /\ UNCHANGED <<merging, cmdEnvVars, trustVars, ptyVars>>

\* check_trust and the match on it: Trusted goes on to run_setup_script, the
\* others emit trust-required and return the record.
CwCheckTrust ==
    /\ cmd.op = "create_workspace"
    /\ cmd.pc = "check_trust"
    /\ LET st == check_trust(cmd.repo)
       IN  cmd' = IF create_gate(st) = "run_setup"
                  THEN [cmd EXCEPT !.trust = st, !.pc = "setup"]
                  ELSE [cmd EXCEPT !.trust = st, !.pc = "done",
                                   !.events = Append(@, TrustRequired(cmd.id,
                                                  cmd.repo, cmd.script,
                                                  changed_files_of(st))),
                                   !.returned = Ok(cmd.id)]
    /\ UNCHANGED <<cmdEnvVars, trustVars, ptyVars, wsVars>>

\* run_setup_script: sh -c <script> is started in the worktree ...
CmdRunSetup ==
    /\ cmd.pc = "setup"
    /\ cmd' = [cmd EXCEPT !.pc = "setup_wait", !.setup = "running",
                          !.ran = Append(@, cmd.script)]
    /\ UNCHANGED <<cmdEnvVars, trustVars, ptyVars, wsVars>>

\* ... and output() returns when it has exited.
CmdSetupExit ==
    /\ cmd.pc = "setup_wait"
    /\ cmd' = [cmd EXCEPT !.pc = "spawn", !.setup = "finished"]
    /\ UNCHANGED <<cmdEnvVars, trustVars, ptyVars, wsVars>>

\* resolve_and_spawn_agent: pty.spawn under the registry lock, then return.
CmdSpawnAgent ==
    /\ cmd.pc = "spawn"
    /\ pty_spawn(cmd.id, TRUE)
    /\ cmd' = [cmd EXCEPT !.pc = "done", !.spawn = spawn_result(cmd.id, TRUE),
                          !.returned =
                              IF spawn_result(cmd.id, TRUE) # "Ok"
                              THEN Err(spawn_result(cmd.id, TRUE))
                              ELSE IF cmd.op = "create_workspace"
                              THEN Ok(cmd.id) ELSE Ok("unit")]
    /\ UNCHANGED <<cmdEnvVars, trustVars, wsVars>>

\* run_setup_and_start_agent up to the script test: workspace context, then
\* the setup_script of the cached repo config.
RsBegin(id) ==
    /\ cmd.pc = "done"
    /\ cmd' = IF ~context_found(id)
              THEN [NoCommand EXCEPT !.op = "run_setup_and_start_agent",
                                     !.id = id, !.returned = Err("NotFound")]
              ELSE [NoCommand EXCEPT
                       !.op = "run_setup_and_start_agent", !.id = id,
                       !.repo = workspaces[id].repo_path,
                       !.script = SetupScriptOf(repo_configs[workspaces[id].repo_path]),
                       !.pc = IF SetupScriptOf(repo_configs[workspaces[id].repo_path])
                                   # NoScript
                              THEN "setup" ELSE "spawn"]
    /\ UNCHANGED <<cmdEnvVars, trustVars, ptyVars, wsVars>>

\* run_snippet up to the trust check: workspace context, then the script of
\* that name in the cached repo config's snippets map.
SnBegin(id, n) ==
    /\ cmd.pc = "done"
    /\ cmd' = IF ~context_found(id)
              THEN [NoCommand EXCEPT !.op = "run_snippet", !.id = id, !.name = n,
                                     !.returned = Err("NotFound")]
              ELSE LET r == workspaces[id].repo_path
                       script == LegacySnippetsOf(repo_configs[r])[n]
                   IN  IF script = NoCmd
                       THEN [NoCommand EXCEPT !.op = "run_snippet", !.id = id,
                                              !.name = n, !.repo = r,
                                              !.returned = Err("snippet not found")]
                       ELSE [NoCommand EXCEPT !.op = "run_snippet", !.id = id,
                                              !.name = n, !.repo = r,
                                              !.command = script, !.from_repo = TRUE,
                                              !.pc = "sn_check"]
    /\ UNCHANGED <<cmdEnvVars, trustVars, ptyVars, wsVars>>

\* run_snippet: check_trust(repo)?, Untrusted and Changed return an error.
SnCheckTrust ==
    /\ cmd.pc = "sn_check"
    /\ LET st == check_trust(cmd.repo)
       IN  cmd' = IF st = Trusted
                  THEN [cmd EXCEPT !.trust = st, !.pc = "sn_exec"]
                  ELSE [cmd EXCEPT !.trust = st, !.pc = "done",
                                   !.returned = Err("not trusted")]
    /\ UNCHANGED <<cmdEnvVars, trustVars, ptyVars, wsVars>>

\* run_snippet: sh -c <script> is started in the worktree ...
SnExec ==
    /\ cmd.pc = "sn_exec"
    /\ cmd' = [cmd EXCEPT !.pc = "sn_wait", !.ran = Append(@, cmd.command)]
    /\ UNCHANGED <<cmdEnvVars, trustVars, ptyVars, wsVars>>

\* ... and its output is returned when it has exited.
SnExit(code) ==
    /\ cmd.pc = "sn_wait"
    /\ cmd' = [cmd EXCEPT !.pc = "done",
                          !.returned = IF code = 0 THEN Ok("stdout")
                                       ELSE Err("snippet failed")]
    /\ UNCHANGED <<cmdEnvVars, trustVars, ptyVars, wsVars>>

\* run_snippet_v2: workspace context, then resolve_snippet(repo, name).
V2Begin(id, n) ==
    /\ cmd.pc = "done"
    /\ cmd' = IF ~context_found(id)
              THEN [NoCommand EXCEPT !.op = "run_snippet_v2", !.id = id, !.name = n,
                                     !.returned = Err("NotFound")]
              ELSE LET r == workspaces[id].repo_path
                   IN  IF resolve_snippet(r, n) = NoCmd
                       THEN [NoCommand EXCEPT !.op = "run_snippet_v2", !.id = id,
                                              !.name = n, !.repo = r,
                                              !.returned = Err("snippet not found")]
                       ELSE [NoCommand EXCEPT !.op = "run_snippet_v2", !.id = id,
                                              !.name = n, !.repo = r,
                                              !.command = resolve_snippet(r, n),
                                              !.from_repo = is_repo_snippet(r, n),
                                              !.pc = "v2_is_repo"]
    /\ UNCHANGED <<cmdEnvVars, trustVars, ptyVars, wsVars>>

\* run_snippet_v2: is_repo = is_repo_snippet(repo, name), a second read.
V2IsRepo ==
    /\ cmd.pc = "v2_is_repo"
    /\ cmd' = [cmd EXCEPT !.is_repo = is_repo_snippet(cmd.repo, cmd.name),
                          !.pc = IF is_repo_snippet(cmd.repo, cmd.name)
                                 THEN "v2_check" ELSE "v2_emit"]
    /\ UNCHANGED <<cmdEnvVars, trustVars, ptyVars, wsVars>>

\* run_snippet_v2: check_trust(repo)? when is_repo.
V2CheckTrust ==
    /\ cmd.pc = "v2_check"
    /\ LET st == check_trust(cmd.repo)
       IN  cmd' = IF st = Trusted
                  THEN [cmd EXCEPT !.trust = st, !.pc = "v2_emit"]
                  ELSE [cmd EXCEPT !.trust = st, !.pc = "done",
                                   !.returned = Err("not trusted")]
    /\ UNCHANGED <<cmdEnvVars, trustVars, ptyVars, wsVars>>

\* run_snippet_v2: the header is emitted, the thread is started, Ok(()) returned.
V2EmitHeader ==
    /\ cmd.pc = "v2_emit"
    /\ cmd' = [cmd EXCEPT !.pc = "v2_guard", !.returned = Ok("unit"),
                          !.events = Append(@, SnippetOutput(cmd.id, "header"))]
    /\ UNCHANGED <<cmdEnvVars, trustVars, ptyVars, wsVars>>

\* The thread's test before it spawns: abort when the name resolves again and
\* its command differs.
guard_aborts(is_repo, current, command) ==
    is_repo /\ current # NoCmd /\ current # command

\* run_snippet_v2, thread: the guard.
V2Guard ==
    /\ cmd.pc = "v2_guard"
    /\ LET current == resolve_snippet(cmd.repo, cmd.name)
       IN  cmd' = IF guard_aborts(cmd.is_repo, current, cmd.command)
                  THEN [cmd EXCEPT !.guard = current, !.pc = "done",
                                   !.events = @ \o <<SnippetOutput(cmd.id, "aborted"),
                                                     SnippetComplete(cmd.id, -1)>>]
                  ELSE [cmd EXCEPT !.guard = IF cmd.is_repo THEN current ELSE "skipped",
                                   !.pc = "v2_spawn"]
    /\ UNCHANGED <<cmdEnvVars, trustVars, ptyVars, wsVars>>

\* run_snippet_v2, thread: Command::new("sh").spawn().
V2Spawn(ok) ==
    /\ cmd.pc = "v2_spawn"
    /\ cmd' = IF ok
              THEN [cmd EXCEPT !.pc = "v2_wait", !.ran = Append(@, cmd.command)]
              ELSE [cmd EXCEPT !.pc = "done",
                               !.events = @ \o <<SnippetOutput(cmd.id, "failed to start"),
                                                 SnippetComplete(cmd.id, -1)>>]
    /\ UNCHANGED <<cmdEnvVars, trustVars, ptyVars, wsVars>>

\* run_snippet_v2, thread: the child has exited and its output is streamed.
V2Exit(code) ==
    /\ cmd.pc = "v2_wait"
    /\ cmd' = [cmd EXCEPT !.pc = "done",
                          !.events = @ \o <<SnippetOutput(cmd.id, "complete"),
                                            SnippetComplete(cmd.id, code)>>]
    /\ UNCHANGED <<cmdEnvVars, trustVars, ptyVars, wsVars>>

\* The command layer on one registered repo and one workspace id: the files
\* found at startup, an empty trust store, the repo config cached from disk.
CmdRepos == {"r1"}
CmdWorkspaceIds == {"w1"}
CmdConfigContents == {"cfgA2", "cfgB", "cfgN"}
CmdSnippetsContents ==
    {[kind |-> "missing", cmds |-> NoSnippets]}
    \cup [kind : {"doc"}, cmds : [SnippetNames -> Commands \cup {NoCmd}]]

CmdInit ==
    /\ \E c \in {"cfgA2", "cfgN"} :
           /\ files = [r \in CmdRepos |->
                          [config |-> c, snippets |-> [kind |-> "missing",
                                                       cmds |-> NoSnippets]]]
           /\ repo_configs = [r \in CmdRepos |-> c]
    /\ trust_store = [trust_all_repos |-> FALSE, repos |-> [r \in CmdRepos |-> NoEntry]]
    /\ granted = [r \in CmdRepos |-> NoGrant]
    /\ revoked = {}
    /\ last_status = NoStatus
    /\ sessions = [id \in CmdWorkspaceIds |-> NoSession]
    /\ procs = <<>>
    /\ pty_last = NoCall
    /\ workspaces = [id \in CmdWorkspaceIds |-> NoWorkspace]
    /\ ws_used = {}
    /\ merging = {}
    /\ ws_last = NoCall
    /\ global_snippets \in {NoSnippets, [n \in SnippetNames |-> "cmd2"]}
    /\ cmd = NoCommand

CmdNext ==
    \/ \E r \in Repos, b \in Branches : CwBegin(r, b)
    \/ \E id \in DOMAIN workspaces, o \in CreateOutcomes : CwCreate(id, o)
    \/ CwCheckTrust
    \/ CmdRunSetup
    \/ CmdSetupExit
    \/ CmdSpawnAgent
    \/ \E id \in DOMAIN workspaces : RsBegin(id)
    \/ \E id \in DOMAIN workspaces, n \in SnippetNames : SnBegin(id, n)
    \/ SnCheckTrust
    \/ SnExec
    \/ \E code \in ExitCodes : SnExit(code)
    \/ \E id \in DOMAIN workspaces, n \in SnippetNames : V2Begin(id, n)
    \/ V2IsRepo
    \/ V2CheckTrust
    \/ V2EmitHeader
    \/ V2Guard
    \/ \E ok \in BOOLEAN : V2Spawn(ok)
    \/ \E code \in ExitCodes : V2Exit(code)
    \/ \E r \in Repos : GrantTrust(r)
    \/ \E r \in Repos : RevokeTrust(r)
    \/ \E r \in Repos, c \in CmdConfigContents : WriteConfigFile(r, c)
    \/ \E r \in Repos, c \in CmdSnippetsContents : WriteSnippetsFile(r, c)

InitCmd == CmdInit /\ AuxIdle

SpecCmd == InitCmd /\ [][CmdNext]_vars

(***************************************************************************)
(* Claims on the command handlers (SpecCmd)                                *)
(***************************************************************************)
\* The shell string being or last executed is a repo's setup script or a
\* repo-level snippet.
RanRepoShell ==
    /\ cmd.ran # <<>>
    /\ \/ cmd.op \in {"create_workspace", "run_setup_and_start_agent", "run_snippet"}
       \/ cmd.op = "run_snippet_v2" /\ cmd.from_repo

\* C1: whenever a command has run a repo's setup script or a repo-level
\* snippet, check_trust returned Trusted to that invocation before it did.
C1_ExecutionOnlyAfterTrusted ==
    RanRepoShell => cmd.trust = Trusted

\* C9: for a repo-level snippet, run_snippet_v2 spawns the command only if the
\* guard resolved the name to the same command again; if it resolved to
\* anything else (changed, replaced or gone) nothing is spawned and the run
\* ends with snippet-complete -1.
C9_GuardStopsChangedSnippet ==
    (cmd.op = "run_snippet_v2" /\ cmd.is_repo /\ cmd.guard # "none") =>
        IF cmd.guard = cmd.command
        THEN cmd.pc \in {"v2_spawn", "v2_wait", "done"}
        ELSE /\ cmd.ran = <<>>
             /\ cmd.pc = "done"
             /\ cmd.events[Len(cmd.events)] = SnippetComplete(cmd.id, -1)

\* C10: a create_workspace that got Untrusted or Changed from check_trust has
\* emitted exactly one trust-required event (changed_files empty for Untrusted,
\* the Changed list otherwise), has run no script, has spawned no PTY session
\* and has returned the record; one that got Trusted spawns the PTY session
\* only after the setup script has finished.
C10_TrustRequiredOrSetupBeforeSpawn ==
    cmd.op = "create_workspace" =>
        /\ cmd.trust \notin {NoStatus, Trusted} =>
               /\ cmd.events = <<TrustRequired(cmd.id, cmd.repo, cmd.script,
                                     IF cmd.trust = Untrusted THEN <<>>
                                     ELSE cmd.trust.changed_files)>>
               /\ cmd.ran = <<>>
               /\ cmd.spawn = "none"
               /\ sessions[cmd.id] = NoSession
               /\ cmd.pc = "done"
               /\ cmd.returned = Ok(cmd.id)
               /\ workspaces[cmd.id] # NoWorkspace
        /\ cmd.trust = Trusted =>
               /\ cmd.pc \in {"setup", "setup_wait", "spawn", "done"}
               /\ cmd.pc \in {"spawn", "done"} => cmd.setup = "finished"
               /\ cmd.spawn # "none" => (cmd.setup = "finished" /\ cmd.ran = <<cmd.script>>)
               /\ cmd.events = <<>>
        /\ cmd.setup = "running" => (cmd.spawn = "none" /\ sessions[cmd.id] = NoSession)

C10_Witness ==
    /\ cmd.op = "create_workspace"
    /\ cmd.trust = Changed(<<"config.json", "snippets.json">>)
    /\ Len(cmd.events) = 1
    /\ cmd.returned = Ok(cmd.id)

(***************************************************************************)
(* Claims on kill, child exit and the liveness cell (SpecPty)              *)
(***************************************************************************)
\* C11: kill(id) returns Ok; on a registered session it leaves id out of the
\* registry with is_alive(id) false, so that a spawn(id) called next passes both
\* precondition tests; on an id without session it changes nothing.
C11_KillFreesTheId ==
    [][\A id \in DOMAIN sessions :
           (pty_last'.op = "kill" /\ pty_last'.id = id) =>
               /\ pty_last'.result = "Ok"
               /\ sessions[id] # NoSession =>
                      /\ sessions'[id] = NoSession
                      /\ ~is_alive(id)'
                      /\ ~procs'[sessions[id]].alive
                      /\ spawn_check(id)' = "Ok"
               /\ sessions[id] = NoSession =>
                      /\ sessions' = sessions
                      /\ procs' = procs]_vars

C11_Witness ==
    /\ pty_last.op = "kill"
    /\ sessions[pty_last.id] = NoSession
    /\ \E s \in DOMAIN procs :
           /\ procs[s].id = pty_last.id
           /\ procs[s].writer = "dropped"
           /\ procs[s].reader = "reading"
           /\ \A t \in DOMAIN procs : procs[t].id = pty_last.id => t <= s
    /\ Cardinality(Registered) = max_sessions - 1
    /\ spawn_check(pty_last.id) = "Ok"

\* The sessions that count: registered and not ended by their child's exit.
NotExited == {id \in Registered : procs[sessions[id]].reader # "done"}

\* C12: once a session's child has exited on its own and its reader has ended,
\* the session no longer counts toward max_concurrent_agents and spawn(id) for
\* its workspace id is not rejected with Exists.
C12_ExitedSessionIsDestroyed ==
    [][pty_last'.op = "spawn" =>
           /\ pty_last'.result = "SessionLimit" =>
                  Cardinality(NotExited) >= max_sessions
           /\ (sessions[pty_last'.id] # NoSession /\
               procs[sessions[pty_last'.id]].reader = "done") =>
                  pty_last'.result # "Exists"]_vars

\* C17: a session's liveness flag is true when spawn creates it and, once
\* false, stays false through reader end and kill in either order.
C17_AliveFallsOnce ==
    [][/\ \A s \in DOMAIN procs : ~procs[s].alive => ~procs'[s].alive
       /\ \A s \in DOMAIN procs' \ DOMAIN procs : procs'[s].alive]_vars

C17_Witness ==
    \E s \in DOMAIN procs :
        /\ ~procs[s].alive
        /\ procs[s].writer = "dropped"
        /\ procs[s].reader = "done"

(***************************************************************************)
(* One session and its reader thread, line by line (SpecReader)            *)
(***************************************************************************)
ReaderIds == {"w1"}

ReaderInit ==
    /\ sessions = [id \in ReaderIds |-> NoSession]
    /\ procs = <<>>
    /\ pty_last = NoCall

\* The first spawn of the run; the session it creates is the one followed.
FirstSpawn(id) ==
    /\ procs = <<>>
    /\ Spawn(id, TRUE)

ReaderNext ==
    \/ \E id \in DOMAIN sessions : FirstSpawn(id)
    \/ \E id \in DOMAIN sessions : Kill(id)
    \/ \E s \in DOMAIN procs : ChildExit(s)
    \/ \E s \in DOMAIN procs : Tick(s)
    \/ \E s \in DOMAIN procs, raw \in RawLines : ReaderLine(s, raw)
    \/ \E s \in DOMAIN procs, why \in EndReasons : ReaderEof(s, why)
    \/ \E s \in DOMAIN procs : ReaderMarkDead(s)
    \/ \E s \in DOMAIN procs : ReaderEmitExit(s)

InitReader == ReaderInit /\ TrustIdle /\ WsIdle /\ CmdIdle /\ AuxIdle

SpecReader == InitReader /\ [][ReaderNext]_vars

\* The session numbered s, or a session that was never spawned.
ProcAt(s) ==
    IF s \in DOMAIN procs THEN procs[s]
    ELSE [NewProc("none") EXCEPT !.reader = "none", !.child = "none"]

\* The reader thread runs whenever it can: it is never starved of the CPU.
\* Nothing is assumed of the child (when it writes, whether it exits).
ReaderFairness ==
    \A s \in 1..MaxSpawns :
        /\ WF_vars(s \in DOMAIN procs /\ ReaderEof(s, "eof"))
        /\ WF_vars(s \in DOMAIN procs /\ ReaderMarkDead(s))
        /\ WF_vars(s \in DOMAIN procs /\ ReaderEmitExit(s))

SpecReaderFair == InitReader /\ [][ReaderNext]_vars /\ ReaderFairness

\* The pty-output payloads of a session, in emission order, end to end.
RECURSIVE Payloads(_)
Payloads(emitted) ==
    IF emitted = <<>> THEN <<>>
    ELSE (IF Head(emitted).name = "pty-output" THEN Head(emitted).payload ELSE <<>>)
         \o Payloads(Tail(emitted))

\* The lines read, each followed by a newline.
RECURSIVE WithNewlines(_)
WithNewlines(read) ==
    IF read = <<>> THEN <<>>
    ELSE <<Head(read), "\n">> \o WithNewlines(Tail(read))

ExitCount(emitted) ==
    Cardinality({i \in DOMAIN emitted : emitted[i].name = "pty-exit"})

\* C13: after kill(id) on a live session, its reader thread eventually emits
\* pty-exit-<id>, whatever the child does.
C13_KillLeadsToExitEvent ==
    \A s \in 1..MaxSpawns :
        [](ProcAt(s).writer = "dropped" => <>(ProcAt(s).reader = "done"))

\* C14: a reader emits pty-exit at most once, exactly once when it has ended,
\* as its last event, with nothing left in the batch and the liveness flag
\* false.
C14_ExitEventOnceAndLast ==
    \A s \in DOMAIN procs :
        LET p == procs[s]
        IN  /\ ExitCount(p.emitted) = IF p.reader = "done" THEN 1 ELSE 0
            /\ p.reader = "done" =>
                   /\ p.emitted[Len(p.emitted)] = PtyExit(p.id)
                   /\ p.batch = <<>>
                   /\ ~p.alive
                   /\ Payloads(p.emitted) = WithNewlines(p.read)

C14_Witness ==
    \E s \in DOMAIN procs :
        /\ procs[s].reader = "done"
        /\ Len(procs[s].emitted) = 3
        /\ procs[s].emitted[2].name = "pty-output"
        /\ procs[s].writer = "open"

\* C15: what a session has emitted as pty-output, followed by what is still in
\* its batch, is the lines read, in order, each with a newline; when the
\* reader has left its loop and flushed, the batch is empty.
C15_OutputIsLinesRead ==
    \A s \in DOMAIN procs :
        /\ Payloads(procs[s].emitted) \o procs[s].batch = WithNewlines(procs[s].read)
        /\ procs[s].reader # "reading" => procs[s].batch = <<>>

C15_Witness ==
    \E s \in DOMAIN procs :
        /\ procs[s].reader = "done"
        /\ procs[s].read = <<"l1", "long", "l2">>
        /\ Len(procs[s].emitted) = 3

\* C16: a non-empty batch that is due (interval passed, or longer than the
\* maximum) is emitted without a further line or the end of input.
C16_DueBatchIsFlushed ==
    \A s \in 1..MaxSpawns :
        [](/\ ProcAt(s).reader = "reading"
           /\ ProcAt(s).batch # <<>>
           /\ \/ ProcAt(s).elapsed >= BATCH_INTERVAL_MS
              \/ BatchLen(ProcAt(s).batch) > BatchMaxLen
           => <>(ProcAt(s).batch = <<>>))

(***************************************************************************)
(* trust.rs, step by step: calls from several threads (SpecTrustConc)      *)
(***************************************************************************)
TrustThreads == {"t1", "t2"}
ConcRepos == {"r1", "r2"}
TrustOps == {"grant_trust", "revoke_trust", "check_trust"}

NoStore == [store |-> "none"]
NoCall2 == [op |-> "none", repo |-> "none", pc |-> "idle", store |-> NoStore,
            result |-> NoStatus]

lock_available_always(holder) == TRUE

\* Mutex::lock returns when no other thread holds the mutex.
lock_available(holder) == holder = "free"

\* What a call makes of the store it has loaded.
apply_call(op, r, store) ==
    CASE op = "grant_trust" -> [store EXCEPT !.repos[r] = grant_entry(r)]
      [] op = "revoke_trust" -> [store EXCEPT !.repos[r] = revoke_entry(@)]
      [] OTHER -> store

\* A thread calls grant_trust, revoke_trust or check_trust.
TcBegin(t, op, r) ==
    /\ tcalls[t].pc = "idle"
    /\ tcalls' = [tcalls EXCEPT ![t] = [NoCall2 EXCEPT !.op = op, !.repo = r,
                                                        !.pc = "lock"]]
    /\ UNCHANGED <<trust_lock, ideal, trustVars, ptyVars, wsVars, cmdVars, sysVars, lockVars, fnVars>>

\* let _guard = trust_file_lock().lock()
TcLock(t) ==
    /\ tcalls[t].pc = "lock"
    /\ lock_available(trust_lock)
    /\ trust_lock' = t
    /\ tcalls' = [tcalls EXCEPT ![t].pc = "load"]
    /\ UNCHANGED <<ideal, trustVars, ptyVars, wsVars, cmdVars, sysVars, lockVars, fnVars>>

\* load_trust_store()
TcLoad(t) ==
    /\ tcalls[t].pc = "load"
    /\ tcalls' = [tcalls EXCEPT ![t].store = trust_store, ![t].pc = "compute"]
    /\ UNCHANGED <<trust_lock, ideal, trustVars, ptyVars, wsVars, cmdVars, sysVars, lockVars, fnVars>>

\* The hashes are computed and the loaded store is changed (grant, revoke) or
\* compared (check).
TcCompute(t) ==
    /\ tcalls[t].pc = "compute"
    /\ tcalls' = [tcalls EXCEPT
           ![t].store = apply_call(tcalls[t].op, tcalls[t].repo, @),
           ![t].result = IF tcalls[t].op = "check_trust"
                         THEN check_trust_in(tcalls[t].store, tcalls[t].repo)
                         ELSE NoStatus,
           ![t].pc = IF tcalls[t].op = "check_trust" THEN "unlock" ELSE "save"]
    /\ UNCHANGED <<trust_lock, ideal, trustVars, ptyVars, wsVars, cmdVars, sysVars, lockVars, fnVars>>

\* save_trust_store(&store)
TcSave(t) ==
    /\ tcalls[t].pc = "save"
    /\ trust_store' = tcalls[t].store
    /\ ideal' = apply_call(tcalls[t].op, tcalls[t].repo, ideal)
    /\ tcalls' = [tcalls EXCEPT ![t].pc = "unlock"]
    /\ UNCHANGED <<trust_lock, files, granted, revoked, last_status, ptyVars, wsVars,
                   cmdVars, sysVars, lockVars, fnVars>>

\* The guard is dropped as the function returns.
TcUnlock(t) ==
    /\ tcalls[t].pc = "unlock"
    /\ trust_lock' = "free"
    /\ tcalls' = [tcalls EXCEPT ![t].pc = "idle"]
    /\ UNCHANGED <<ideal, trustVars, ptyVars, wsVars, cmdVars, sysVars, lockVars, fnVars>>

\* Two repos with their files, no trust.json, no call in progress.  The repos'
\* files stay as they are while the calls run.
ConcInit ==
    /\ files = [r \in ConcRepos |->
                   [config |-> IF r = "r1" THEN "cfgA" ELSE "cfgB",
                    snippets |-> [kind |-> "missing", cmds |-> NoSnippets]]]
    /\ trust_store = [trust_all_repos |-> FALSE, repos |-> [r \in ConcRepos |-> NoEntry]]
    /\ granted = [r \in ConcRepos |-> NoGrant]
    /\ revoked = {}
    /\ last_status = NoStatus
    /\ trust_lock = "free"
    /\ tcalls = [t \in TrustThreads |-> NoCall2]
    /\ ideal = [trust_all_repos |-> FALSE, repos |-> [r \in ConcRepos |-> NoEntry]]

ConcNext ==
    \/ \E t \in TrustThreads, op \in TrustOps, r \in Repos : TcBegin(t, op, r)
    \/ \E t \in TrustThreads : TcLock(t)
    \/ \E t \in TrustThreads : TcLoad(t)
    \/ \E t \in TrustThreads : TcCompute(t)
    \/ \E t \in TrustThreads : TcSave(t)
    \/ \E t \in TrustThreads : TcUnlock(t)

InitTrustConc == ConcInit /\ PtyIdle /\ WsIdle /\ CmdIdle /\ SysIdle /\ LocksIdle /\ FnIdle

SpecTrustConc == InitTrustConc /\ [][ConcNext]_vars

\* C19: the trust file always holds what the saved calls give when run one at
\* a time in the order of their saves (no update is lost); between its load and
\* its return a call sees the store as it is (wholly before or wholly after any
\* other call), a check_trust answers on that store, and at most one thread is
\* inside a call's critical section.
C19_TrustCallsAreSerial ==
    /\ trust_store = ideal
    /\ \A t \in TrustThreads :
           /\ tcalls[t].pc \in {"compute"} => tcalls[t].store = trust_store
           /\ (tcalls[t].pc = "unlock" /\ tcalls[t].op = "check_trust") =>
                  /\ tcalls[t].store = trust_store
                  /\ tcalls[t].result = check_trust(tcalls[t].repo)
    /\ \A t, u \in TrustThreads :
           (tcalls[t].pc \notin {"idle", "lock"} /\ tcalls[u].pc \notin {"idle", "lock"})
               => t = u

C19_Witness ==
    \E t, u \in TrustThreads :
        /\ tcalls[t].op = "grant_trust" /\ tcalls[t].repo = "r1"
        /\ tcalls[u].op = "grant_trust" /\ tcalls[u].repo = "r2"
        /\ tcalls[t].pc = "unlock"
        /\ tcalls[u].pc = "lock"
        /\ trust_store.repos["r1"] # NoEntry
        /\ trust_store.repos["r2"] = NoEntry

(***************************************************************************)
(* The mutexes of the handlers and of the reader threads (SpecLocks)       *)
(***************************************************************************)
\* Threads that run Tauri commands, and the reader threads that spawn starts.
Callers == {"c1", "c2"}
ReaderThreads == {"rd1"}
LockThreads == Callers \cup ReaderThreads
LockSessions == {"w1"}

\* The managed mutexes (lib.rs) and the trust file lock (trust.rs).
SharedLocks == {"pty_mgr", "ws_mgr", "config", "keychain", "shortcuts", "trust_file"}

\* PtySession.alive of the session whose reader thread is r.
alive_cell(r) == "alive_" \o r

AllLocks == SharedLocks \cup {alive_cell(r) : r \in ReaderThreads}

\* One instruction of a thread: what it does (k) and on what (l).
I(k, l) == [k |-> k, l |-> l]
NoInstr == I("none", "none")
IdleThread == [prog |-> <<>>, pc |-> 1, id |-> "none", reader |-> "none"]

\* The reader thread: lines are read and emitted in batches; after the loop the
\* rest is emitted, the liveness cell is locked, set and released, and pty-exit
\* is emitted.
reader_thread_locks_registry(r) ==
    << I("read", "line"), I("emit", "pty-output"), I("read", "eof"),
       I("emit", "pty-output"),
       I("lock", alive_cell(r)), I("lock", "pty_mgr"), I("step", "alive = false"),
       I("unlock", "pty_mgr"), I("unlock", alive_cell(r)),
       I("emit", "pty-exit") >>

reader_thread(r) ==
    << I("read", "line"), I("emit", "pty-output"), I("read", "eof"),
       I("emit", "pty-output"),
       I("lock", alive_cell(r)), I("step", "alive = false"),
       I("unlock", alive_cell(r)),
       I("emit", "pty-exit") >>

\* PtyManager::kill once the entry of reader r's session has been removed.
kill_found(r) ==
    << I("lock", alive_cell(r)), I("step", "alive = false"),
       I("unlock", alive_cell(r)), I("step", "drop writer") >>

\* PtyManager::spawn past its two checks.
spawn_passed ==
    << I("spawn", "agent"), I("start_reader", "reader"), I("insert", "session") >>

validate_repo_path ==
    << I("lock", "config"), I("step", "repo_configs"), I("unlock", "config") >>

\* WorkspaceManager::create: resolve_base_branch runs git, then git worktree add.
ws_create_steps ==
    << I("step", "insert Creating"),
       I("spawn", "git"), I("wait", "git"),
       I("spawn", "git"), I("wait", "git"),
       I("step", "Running") >>

\* WorkspaceManager::remove of a workspace that is not Running.
ws_remove_steps ==
    << I("step", "Cleaning"), I("spawn", "git"), I("wait", "git"),
       I("step", "remove") >>

check_trust_steps ==
    << I("lock", "trust_file"), I("step", "load_trust_store"), I("unlock", "trust_file") >>

run_setup_script == << I("spawn", "sh"), I("wait", "sh") >>

get_workspace_context ==
    << I("lock", "ws_mgr"), I("step", "get"), I("unlock", "ws_mgr") >>

resolve_and_spawn_agent ==
    << I("lock", "config"), I("step", "resolve_agent"), I("unlock", "config"),
       I("lock", "keychain"), I("step", "env_vars"), I("unlock", "keychain"),
       I("lock", "pty_mgr"), I("pty_spawn", "id"), I("unlock", "pty_mgr") >>

SetupCases == {"no script", "Trusted", "Untrusted"}

create_workspace(setup) ==
    validate_repo_path
    \o << I("lock", "config"), I("step", "resolve agent"), I("unlock", "config"),
          I("lock", "ws_mgr") >>
    \o ws_create_steps
    \o << I("unlock", "ws_mgr") >>
    \o (IF setup = "no script" THEN <<>> ELSE check_trust_steps)
    \o (CASE setup = "Trusted" -> run_setup_script
          [] setup = "Untrusted" -> << I("emit", "trust-required") >>
          [] OTHER -> <<>>)
    \o (IF setup = "Untrusted" THEN <<>> ELSE resolve_and_spawn_agent)

start_agent_no_setup == get_workspace_context \o resolve_and_spawn_agent

stop_workspace ==
    << I("lock", "pty_mgr"), I("kill", "id"), I("unlock", "pty_mgr"),
       I("lock", "ws_mgr"), I("step", "stop"), I("unlock", "ws_mgr") >>

RemoveCases == {"Running", "Stopped"}

remove_workspace(state) ==
    << I("lock", "pty_mgr"), I("kill", "id"), I("unlock", "pty_mgr"),
       I("lock", "ws_mgr") >>
    \o (IF state = "Running" THEN << I("step", "Err") >> ELSE ws_remove_steps)
    \o << I("unlock", "ws_mgr") >>

send_to_agent ==
    << I("lock", "pty_mgr"), I("step", "write"), I("unlock", "pty_mgr") >>

CommandPrograms ==
    {create_workspace(c) : c \in SetupCases}
        \cup {remove_workspace(c) : c \in RemoveCases}
        \cup {start_agent_no_setup, stop_workspace, send_to_agent}

Spawns(prog) == \E n \in 1..Len(prog) : prog[n].k = "pty_spawn"

\* The instruction a thread is at (NoInstr when it has none left).
At(t) ==
    IF t \in DOMAIN threads /\ threads[t].pc <= Len(threads[t].prog)
    THEN threads[t].prog[threads[t].pc] ELSE NoInstr

Held(t) == {l \in DOMAIN lock_owner : lock_owner[l] = t}

\* A read of the PTY and the wait for a setup script return when the child
\* writes or exits: nothing in the program bounds them.
blocking(i) == i.k = "read" \/ (i.k = "wait" /\ i.l = "sh")

reader_free(r) ==
    /\ threads[r].prog = <<>>
    /\ \A c \in Callers : threads[c].reader # r

\* The instructions that follow the one at pc.
Rest(t) == SubSeq(threads[t].prog, threads[t].pc + 1, Len(threads[t].prog))
Done(t) == SubSeq(threads[t].prog, 1, threads[t].pc)

\* A command is invoked on a thread of the runtime.
BeginCommand(c, prog, id) ==
    /\ At(c) = NoInstr
    /\ \E r \in ReaderThreads \cup {"none"} :
           /\ IF Spawns(prog) THEN r # "none" /\ reader_free(r) ELSE r = "none"
           /\ threads' = [threads EXCEPT ![c] = [prog |-> prog, pc |-> 1, id |-> id,
                                                 reader |-> r]]
    /\ UNCHANGED <<lock_owner, pty_registered, concVars, fnVars, trustVars, ptyVars, wsVars, cmdVars, sysVars>>

\* What one instruction does to the thread, the locks and the PTY registry.
exec(t, i) ==
    CASE i.k = "lock" ->
             /\ lock_available(lock_owner[i.l])
             /\ lock_owner' = [lock_owner EXCEPT ![i.l] = t]
             /\ threads' = [threads EXCEPT ![t].pc = @ + 1]
             /\ UNCHANGED pty_registered
      [] i.k = "unlock" ->
             /\ lock_owner' = [lock_owner EXCEPT ![i.l] = "free"]
             /\ threads' = [threads EXCEPT ![t].pc = @ + 1]
             /\ UNCHANGED pty_registered
      [] i.k = "kill" ->
             LET found == {e \in pty_registered : e[1] = threads[t].id} IN
             /\ pty_registered' = pty_registered \ found
             /\ IF found = {}
                THEN threads' = [threads EXCEPT ![t].pc = @ + 1]
                ELSE \E e \in found :
                         threads' = [threads EXCEPT
                             ![t].prog = Done(t) \o kill_found(e[2]) \o Rest(t),
                             ![t].pc = @ + 1]
             /\ UNCHANGED lock_owner
      [] i.k = "pty_spawn" ->
             /\ IF \/ Cardinality(pty_registered) >= max_sessions
                   \/ \E e \in pty_registered : e[1] = threads[t].id
                THEN threads' = [threads EXCEPT ![t].pc = @ + 1]
                ELSE threads' = [threads EXCEPT
                         ![t].prog = Done(t) \o spawn_passed \o Rest(t),
                         ![t].pc = @ + 1]
             /\ UNCHANGED <<lock_owner, pty_registered>>
      [] i.k = "start_reader" ->
             /\ threads' = [threads EXCEPT
                    ![t].pc = @ + 1,
                    ![threads[t].reader] =
                        [prog |-> reader_thread(threads[t].reader), pc |-> 1,
                         id |-> threads[t].id, reader |-> "none"]]
             /\ UNCHANGED <<lock_owner, pty_registered>>
      [] i.k = "insert" ->
             /\ pty_registered' = pty_registered \cup {<<threads[t].id, threads[t].reader>>}
             /\ threads' = [threads EXCEPT ![t].pc = @ + 1]
             /\ UNCHANGED lock_owner
      [] OTHER ->
             /\ threads' = [threads EXCEPT ![t].pc = @ + 1]
             /\ UNCHANGED <<lock_owner, pty_registered>>

\* A thread runs its next instruction.
ThreadStep(t) ==
    /\ At(t) # NoInstr
    /\ ~blocking(At(t))
    /\ exec(t, At(t))
    /\ UNCHANGED <<concVars, fnVars, trustVars, ptyVars, wsVars, cmdVars, sysVars>>

\* The child wrote a line, closed its side, or the setup script exited.
ThreadUnblock(t) ==
    /\ At(t) # NoInstr
    /\ blocking(At(t))
    /\ exec(t, At(t))
    /\ UNCHANGED <<concVars, fnVars, trustVars, ptyVars, wsVars, cmdVars, sysVars>>

LocksInit ==
    /\ lock_owner = [l \in AllLocks |-> "free"]
    /\ threads = [t \in LockThreads |-> IdleThread]
    /\ pty_registered = {}

LocksNext ==
    \/ \E c \in Callers, prog \in CommandPrograms, id \in LockSessions :
           BeginCommand(c, prog, id)
    \/ \E t \in LockThreads : ThreadStep(t)
    \/ \E t \in LockThreads : ThreadUnblock(t)

InitLocks == LocksInit /\ TrustIdle /\ PtyIdle /\ WsIdle /\ CmdIdle /\ SysIdle /\ ConcIdle /\ FnIdle

SpecLocks == InitLocks /\ [][LocksNext]_vars

\* Every instruction that does not wait for a child is eventually run when it
\* can be again and again (a mutex is eventually handed to a waiting thread).
LocksFairness == \A t \in LockThreads : SF_vars(ThreadStep(t))

\* The commands that take the PTY registry lock and no other lock with it.
PtyPrograms == {start_agent_no_setup, stop_workspace, send_to_agent}

PtyLocksNext ==
    \/ \E c \in Callers, prog \in PtyPrograms, id \in LockSessions :
           BeginCommand(c, prog, id)
    \/ \E t \in LockThreads : ThreadStep(t)
    \/ \E t \in LockThreads : ThreadUnblock(t)

SpecLocksFair == InitLocks /\ [][PtyLocksNext]_vars /\ LocksFairness

\* t waits for a mutex that u holds.
WaitsFor(t, u) == At(t).k = "lock" /\ lock_owner[At(t).l] = u

\* A kill has found the session and has not yet returned.
InKill(c) ==
    /\ c \in DOMAIN threads
    /\ At(c) # NoInstr
    /\ threads[c].prog[1] = I("lock", "pty_mgr")
    /\ \E n \in 1..Len(threads[c].prog) : threads[c].prog[n].k = "kill"

\* The reader's loop has ended and its thread has not.
AtEof(r) ==
    /\ r \in DOMAIN threads
    /\ At(r) # NoInstr
    /\ threads[r].pc > 3

Finished(t) == At(t) = NoInstr

\* C18: a reader thread never holds the PTY registry mutex and holds no lock
\* when it emits; no kill and reader wait for each other; and a kill that has
\* begun, and a reader whose loop has ended, both run to their end.
C18_KillAndReaderEndBothComplete ==
    /\ [](\A r \in ReaderThreads \cap DOMAIN threads :
              /\ lock_owner["pty_mgr"] # r
              /\ At(r).k = "emit" => Held(r) = {}
              /\ \A c \in Callers : ~(WaitsFor(c, r) /\ WaitsFor(r, c)))
    /\ \A c \in Callers : [](InKill(c) => <>Finished(c))
    /\ \A r \in ReaderThreads : [](AtEof(r) => <>Finished(r))

\* A kill waits for the liveness cell while the reader's end holds it.
C18_Witness ==
    \E c \in Callers, r \in ReaderThreads :
        /\ lock_owner["pty_mgr"] = c
        /\ At(c) = I("lock", alive_cell(r))
        /\ lock_owner[alive_cell(r)] = r
        /\ At(r) = I("step", "alive = false")

\* C20: a thread that starts a subprocess, or waits for one, holds none of
\* the shared-state mutexes.
C20_NoLockHeldAcrossSubprocess ==
    \A t \in DOMAIN threads :
        At(t).k \in {"spawn", "wait"} => Held(t) \cap SharedLocks = {}

(***************************************************************************)
(* workspace.rs: the worktree path that create computes (SpecPath)         *)
(***************************************************************************)
MaxPathLen == 2

\* Paths are sequences of components from the root; ".." is kept as a
\* component, as std::path does.
canonical_repo == <<"home", "repo">>
short_id == "1a2b3c4d"

\* The one symbolic link of the file system: <repo>/link points outside.
SymlinkAt == <<"home", "repo", "link">>
SymlinkTarget == <<"home", "out">>

DirComponents == {"..", ".worktrees", "link"}
BranchComponents == {"..", "x"}

PathsOver(S) == UNION {[1..n -> S] : n \in 1..MaxPathLen}

AllButLast(p) == SubSeq(p, 1, Len(p) - 1)

\* std::fs::canonicalize of an existing path: ".." and the link are applied
\* from left to right.
RECURSIVE canonicalize_from(_, _)
canonicalize_from(done, rest) ==
    IF rest = <<>> THEN done
    ELSE LET c == Head(rest)
             next == IF c = ".."
                     THEN (IF done = <<>> THEN <<>> ELSE AllButLast(done))
                     ELSE Append(done, c)
         IN  canonicalize_from(IF next = SymlinkAt THEN SymlinkTarget ELSE next,
                               Tail(rest))

canonicalize(p) == canonicalize_from(<<>>, p)

\* Path::join: an absolute argument replaces the base.
join(base, rel) == IF rel.abs THEN rel.parts ELSE base \o rel.parts

\* Path::starts_with: component by component, nothing is resolved.
starts_with(p, base) ==
    Len(p) >= Len(base) /\ SubSeq(p, 1, Len(base)) = base

\* format!("{branch}-{short_id}"), read as a path.
worktree_name(branch) ==
    [abs |-> FALSE,
     parts |-> Append(AllButLast(branch), branch[Len(branch)] \o "-" \o short_id)]

starts_with_resolved(p, base) == starts_with(canonicalize(p), base)

\* WorkspaceManager::create from the worktree path to the insertion: the
\* path checked and stored is the canonical parent joined with the whole
\* worktree name.
create_path(worktree_dir, branch) ==
    LET worktree_path == join(join(canonical_repo, worktree_dir), worktree_name(branch))
        parent == AllButLast(worktree_path)
        canonical_wt == join(canonicalize(parent), worktree_name(branch))
    IN  IF ~starts_with(canonical_wt, canonical_repo)
        THEN [result |-> "PathEscape", inserted |-> FALSE, git |-> FALSE,
              worktree_path |-> canonical_wt]
        ELSE [result |-> "Ok", inserted |-> TRUE, git |-> TRUE,
              worktree_path |-> canonical_wt]

\* create is called with a worktree_dir (from the repo's config) and a branch.
CreatePath(worktree_dir, branch) ==
    /\ fn_in' = [op |-> "create", worktree_dir |-> worktree_dir, branch |-> branch]
    /\ fn_out' = create_path(worktree_dir, branch)
    /\ UNCHANGED <<spawned_with, trustVars, ptyVars, wsVars, cmdVars, sysVars, concVars, lockVars>>

PathNext ==
    \E abs \in BOOLEAN, d \in PathsOver(DirComponents), b \in PathsOver(BranchComponents) :
        CreatePath([abs |-> abs, parts |-> d], b)

NoFnCall == [op |-> "none"]

InitPath ==
    /\ fn_in = NoFnCall
    /\ fn_out = NoFnCall
    /\ spawned_with = <<>>
    /\ TrustIdle /\ PtyIdle /\ WsIdle /\ CmdIdle /\ SysIdle /\ ConcIdle /\ LocksIdle

SpecPath == InitPath /\ [][PathNext]_vars

\* C26: the worktree path of every record that create inserts lies, once ".."
\* and links are applied, under the canonical repo; and a worktree_dir or
\* branch whose resolved path falls outside the repo makes create return
\* PathEscape without inserting a record or running git.
C26_WorktreeStaysInRepo ==
    fn_in.op = "create" =>
        /\ fn_out.inserted => starts_with(canonicalize(fn_out.worktree_path), canonical_repo)
        /\ ~starts_with(canonicalize(fn_out.worktree_path), canonical_repo) =>
               /\ fn_out.result = "PathEscape"
               /\ ~fn_out.inserted
               /\ ~fn_out.git

(***************************************************************************)
(* agent.rs: AgentAdapter::build_command (SpecAgent)                       *)
(***************************************************************************)
MaxArgs == 2

\* An argument is the sequence of its words ("--a-b" is <<"a", "b">>), so
\* that a substring test is a test on words.
SkipPermissions == <<"dangerously", "skip", "permissions">>
AllowSkipPermissions == <<"allow", "dangerously", "skip", "permissions">>
Verbose == <<"verbose">>
Yolo == <<"yolo">>
ShortYolo == <<"y">>
Exec == <<"exec">>
FullAuto == <<"full", "auto">>
ModelFlag == <<"model">>

AgentNames == {"claude", "codex", "gemini", "aider"}
BaseArgs == {SkipPermissions, AllowSkipPermissions, Verbose, Yolo}
ModelNames == {<<"opus">>, <<"dangerously", "fast">>}

ArgvsOver(S) == UNION {[1..n -> S] : n \in 0..MaxArgs}

\* str::contains, on words.
contains(a, word) == \E i \in DOMAIN a : a[i] = word

Count(args, flag) == Cardinality({i \in DOMAIN args : args[i] = flag})

\* The arguments after the model flag has been injected.
with_model(args, model, model_flag) ==
    IF model # None /\ model_flag # None
    THEN args \o <<model_flag, model>>
    ELSE args

\* AgentAdapter::build_command: the argv for agent name.
build_command(name, base, model, model_flag) ==
    LET args == with_model(base, model, model_flag)
    IN  CASE name = "claude" ->
                 IF ~\E i \in DOMAIN args : contains(args[i], "dangerously")
                 THEN Append(args, SkipPermissions) ELSE args
          [] name = "codex" ->
                 IF args = <<>> THEN <<Exec, FullAuto>> ELSE args
          [] name = "gemini" ->
                 IF ~\E i \in DOMAIN args : args[i] = Yolo \/ args[i] = ShortYolo
                 THEN Append(args, Yolo) ELSE args
          [] OTHER -> args

\* build_command is called on an adapter.
BuildCommand(name, base, model, model_flag) ==
    /\ fn_in' = [op |-> "build_command", name |-> name, args |-> base,
                 model |-> model, model_flag |-> model_flag]
    /\ fn_out' = [args |-> build_command(name, base, model, model_flag)]
    /\ UNCHANGED <<spawned_with, trustVars, ptyVars, wsVars, cmdVars, sysVars, concVars, lockVars>>

AgentNext ==
    \E name \in AgentNames, base \in ArgvsOver(BaseArgs),
       model \in ModelNames \cup {None}, flag \in {ModelFlag, None} :
        BuildCommand(name, base, model, flag)

InitAgent ==
    /\ fn_in = NoFnCall
    /\ fn_out = NoFnCall
    /\ spawned_with = <<>>
    /\ TrustIdle /\ PtyIdle /\ WsIdle /\ CmdIdle /\ SysIdle /\ ConcIdle /\ LocksIdle

SpecAgent == InitAgent /\ [][AgentNext]_vars

\* C29: for agent claude the argv that build_command returns contains
\* --dangerously-skip-permissions exactly once, for every base argv and model.
C29_SkipPermissionsExactlyOnce ==
    (fn_in.op = "build_command" /\ fn_in.name = "claude") =>
        Count(fn_out.args, SkipPermissions) = 1

(***************************************************************************)
(* commands.rs: switch_agent_model among other commands (SpecSwitch)       *)
(***************************************************************************)
SwitchIds == {"w1", "w2"}
SwitchModels == {"opus", "sonnet"}
DefaultModel == "default"

NoSwitch == [op |-> "none", id |-> "none", model |-> "none", pc |-> "idle",
             old |-> NoSession, by |-> NoSession]

spawn_model_default_only(model_override, default_model) == default_model

\* model_override.or(default_model.as_deref()); Some(m) is <<m>>.
spawn_model(model_override, default_model) ==
    IF model_override # None THEN model_override[1] ELSE default_model

\* switch_agent_model(workspace_id, model) is invoked; get_workspace_context
\* finds the workspace or returns its error.
SwBegin(id, model, found) ==
    /\ fn_in.pc \in {"idle", "done"}
    /\ Len(procs) < MaxSpawns
    /\ fn_in' = [op |-> "switch_agent_model", id |-> id, model |-> model,
                 pc |-> IF found THEN "kill" ELSE "done",
                 old |-> sessions[id], by |-> NoSession]
    /\ fn_out' = [result |-> IF found THEN "none" ELSE "NotFound"]
    /\ UNCHANGED <<spawned_with, trustVars, ptyVars, wsVars, cmdVars, sysVars, concVars, lockVars>>

\* The block that locks the registry and kills the session.
SwKill ==
    /\ fn_in.pc = "kill"
    /\ pty_kill(fn_in.id)
    /\ fn_in' = [fn_in EXCEPT !.pc = "spawn"]
    /\ UNCHANGED <<fn_out, spawned_with, trustVars, wsVars, cmdVars, sysVars, concVars, lockVars>>

\* resolve_and_spawn_agent with Some(model): the agent is resolved (or is
\* unknown), the registry is locked again and spawn is called.
SwSpawn(agent_ok, io_ok) ==
    /\ fn_in.pc = "spawn"
    /\ IF ~agent_ok
       THEN /\ fn_out' = [result |-> "UnknownAgent"]
            /\ fn_in' = [fn_in EXCEPT !.pc = "done"]
            /\ UNCHANGED <<spawned_with, ptyVars>>
       ELSE /\ pty_spawn(fn_in.id, io_ok)
            /\ fn_out' = [result |-> spawn_result(fn_in.id, io_ok)]
            /\ IF spawn_result(fn_in.id, io_ok) = "Ok"
               THEN /\ spawned_with' =
                          Append(spawned_with, spawn_model(<<fn_in.model>>, DefaultModel))
                    /\ fn_in' = [fn_in EXCEPT !.pc = "done", !.by = Len(procs) + 1]
               ELSE /\ UNCHANGED spawned_with
                    /\ fn_in' = [fn_in EXCEPT !.pc = "done"]
    /\ UNCHANGED <<trustVars, wsVars, cmdVars, sysVars, concVars, lockVars>>

\* Another command (create_workspace, start_agent_no_setup) spawns a session
\* with the agent's default model.
OtherSpawn(id) ==
    /\ Len(procs) < MaxSpawns
    /\ pty_spawn(id, TRUE)
    /\ spawned_with' = IF spawn_result(id, TRUE) = "Ok"
                       THEN Append(spawned_with, spawn_model(None, DefaultModel))
                       ELSE spawned_with
    /\ UNCHANGED <<fn_in, fn_out, trustVars, wsVars, cmdVars, sysVars, concVars, lockVars>>

SwitchInit ==
    /\ sessions = [id \in SwitchIds |-> NoSession]
    /\ procs = <<>>
    /\ pty_last = NoCall
    /\ fn_in = NoSwitch
    /\ fn_out = [result |-> "none"]
    /\ spawned_with = <<>>

SwitchNext ==
    \/ \E id \in SwitchIds, model \in SwitchModels, found \in BOOLEAN :
           SwBegin(id, model, found)
    \/ SwKill
    \/ \E agent_ok \in BOOLEAN, io_ok \in BOOLEAN : SwSpawn(agent_ok, io_ok)
    \/ \E id \in SwitchIds : OtherSpawn(id)
    \/ \E id \in SwitchIds : Kill(id)

InitSwitch == SwitchInit /\ TrustIdle /\ WsIdle /\ CmdIdle /\ SysIdle /\ ConcIdle /\ LocksIdle

SpecSwitch == InitSwitch /\ [][SwitchNext]_vars

\* The sessions ever spawned for id that the registry holds.
SessionsOf(id) == {n \in DOMAIN procs : procs[n].id = id /\ \E i \in DOMAIN sessions : sessions[i] = n}

\* C27: when switch_agent_model(id, m) returns Ok, the registry holds one
\* session for id, created by this call's spawn with model m, and the session
\* that id had when the call began is no longer registered (its liveness flag
\* is false and its writer dropped); the registry never holds two sessions
\* for one id.
C27_SwitchReplacesSession ==
    [][/\ (fn_in.pc = "spawn" /\ fn_out'.result = "Ok") =>
              /\ sessions'[fn_in.id] = Len(procs) + 1
              /\ SessionsOf(fn_in.id)' = {Len(procs) + 1}
              /\ spawned_with'[Len(procs) + 1] = fn_in.model
              /\ fn_in.old # NoSession =>
                     /\ \A i \in DOMAIN sessions : sessions'[i] # fn_in.old
                     /\ ~procs'[fn_in.old].alive
                     /\ procs'[fn_in.old].writer = "dropped"
       /\ \A i \in DOMAIN sessions : Cardinality(SessionsOf(i)') <= 1]_vars

C27_Witness ==
    /\ fn_in.op = "switch_agent_model"
    /\ fn_in.pc = "done"
    /\ fn_out.result = "Ok"
    /\ fn_in.old # NoSession
    /\ sessions[fn_in.id] = fn_in.by
    /\ fn_in.by # fn_in.old
    /\ spawned_with[fn_in.by] = fn_in.model
    /\ spawned_with[fn_in.old] = DefaultModel
    /\ procs[fn_in.old].writer = "dropped"

(***************************************************************************)
(* git_ops.rs: parse_unified_diff (SpecDiff)                               *)
(***************************************************************************)
MaxDiffLines == 4

\* The largest line number a u32 holds (2^32 - 1 in the code), scaled down.
MaxLineno == 7

\* A line of the diff text, by what the parser tests of it: "diff" starts with
\* "diff --git ", "@@" is a hunk header with the starts parse_hunk_header
\* reads from it (0 where it cannot), "+", "-" and " " are the first character
\* (" " also stands for an empty line, "-" and "+" also for the "--- " and
\* "+++ " lines), "nonl" is the no-newline marker, "gitbin" is
\* "GIT binary patch", "meta" any other line.
Line(t, old_start, new_start) == [t |-> t, old_start |-> old_start, new_start |-> new_start]
PlainLines == {Line(t, 0, 0) : t \in {"diff", "meta", "gitbin", "+", "-", " ", "nonl"}}
HunkHeaders == {Line("@@", 1, 2), Line("@@", MaxLineno, 0)}
DiffLines == PlainLines \cup HunkHeaders

DiffTexts == UNION {[1..n -> DiffLines] : n \in 0..MaxDiffLines}

Some(n) == <<n>>

hunk_line_add_keeps_old(kind, old_lineno, new_lineno) ==
    [kind |-> kind,
     old_lineno |-> IF kind # "nothing" THEN Some(old_lineno) ELSE None,
     new_lineno |-> IF kind # "delete" THEN Some(new_lineno) ELSE None]

\* The DiffLine pushed for a line of a hunk (content left out).
hunk_line(kind, old_lineno, new_lineno) ==
    [kind |-> kind,
     old_lineno |-> IF kind # "add" THEN Some(old_lineno) ELSE None,
     new_lineno |-> IF kind # "delete" THEN Some(new_lineno) ELSE None]

kind_of(l) == CASE l.t = "+" -> "add" [] l.t = "-" -> "delete" [] OTHER -> "context"

\* n += 1 on a u32: beyond the largest value the build either panics
\* (overflow checks on) or wraps to 0.
overflows(kind, old_lineno, new_lineno) ==
    \/ kind # "add" /\ old_lineno = MaxLineno
    \/ kind # "delete" /\ new_lineno = MaxLineno

incr(n) == IF n = MaxLineno THEN 0 ELSE n + 1

\* The loop over the lines of one hunk, from line i on.
RECURSIVE hunk_lines(_, _, _, _, _, _)
hunk_lines(lines, i, old_lineno, new_lineno, acc, checked) ==
    IF i > Len(lines) \/ lines[i].t \in {"diff", "@@", "meta", "gitbin"}
    THEN [i |-> i, lines |-> acc, panic |-> FALSE]
    ELSE IF lines[i].t = "nonl"
    THEN hunk_lines(lines, i + 1, old_lineno, new_lineno, acc, checked)
    ELSE LET kind == kind_of(lines[i])
         IN  IF checked /\ overflows(kind, old_lineno, new_lineno)
             THEN [i |-> i, lines |-> acc, panic |-> TRUE]
             ELSE hunk_lines(lines, i + 1,
                             IF kind # "add" THEN incr(old_lineno) ELSE old_lineno,
                             IF kind # "delete" THEN incr(new_lineno) ELSE new_lineno,
                             Append(acc, hunk_line(kind, old_lineno, new_lineno)),
                             checked)

\* The first line from i on that starts the next file (or the end).
RECURSIVE next_diff(_, _)
next_diff(lines, i) ==
    IF i > Len(lines) \/ lines[i].t = "diff" THEN i ELSE next_diff(lines, i + 1)

\* The loop over the lines of one file, after its "diff --git" line.
RECURSIVE file_hunks(_, _, _, _)
file_hunks(lines, i, hunks, checked) ==
    IF i > Len(lines) \/ lines[i].t = "diff"
    THEN [i |-> i, hunks |-> hunks, panic |-> FALSE]
    ELSE IF lines[i].t = "gitbin"
    THEN file_hunks(lines, next_diff(lines, i + 1), hunks, checked)
    ELSE IF lines[i].t = "@@"
    THEN LET h == hunk_lines(lines, i + 1, lines[i].old_start, lines[i].new_start,
                             <<>>, checked)
         IN  IF h.panic THEN [i |-> i, hunks |-> hunks, panic |-> TRUE]
             ELSE file_hunks(lines, h.i,
                             Append(hunks, [old_start |-> lines[i].old_start,
                                            new_start |-> lines[i].new_start,
                                            lines |-> h.lines]),
                             checked)
    ELSE file_hunks(lines, i + 1, hunks, checked)

RECURSIVE count_kind(_, _)
count_kind(hunks, kind) ==
    IF hunks = <<>> THEN 0
    ELSE Cardinality({n \in DOMAIN Head(hunks).lines : Head(hunks).lines[n].kind = kind})
         + count_kind(Tail(hunks), kind)

\* parse_unified_diff from line i on.
RECURSIVE parse_from(_, _, _, _)
parse_from(lines, i, parsed, checked) ==
    IF i > Len(lines) THEN [panic |-> FALSE, files |-> parsed]
    ELSE IF lines[i].t # "diff" THEN parse_from(lines, i + 1, parsed, checked)
    ELSE LET f == file_hunks(lines, i + 1, <<>>, checked)
         IN  IF f.panic THEN [panic |-> TRUE, files |-> <<>>]
             ELSE parse_from(lines, f.i,
                             Append(parsed, [hunks |-> f.hunks,
                                            additions |-> count_kind(f.hunks, "add"),
                                            deletions |-> count_kind(f.hunks, "delete")]),
                             checked)

parse_unified_diff(lines, checked) == parse_from(lines, 1, <<>>, checked)

\* parse_unified_diff runs on the text it was given.
ParseDiff ==
    /\ fn_in.op = "parse_unified_diff"
    /\ ~fn_out.returned
    /\ fn_out' = [returned |-> TRUE] @@ parse_unified_diff(fn_in.lines, fn_in.checked)
    /\ UNCHANGED <<fn_in, spawned_with, trustVars, ptyVars, wsVars, cmdVars, sysVars, concVars,
                   lockVars>>

DiffNext == ParseDiff

\* A call with any text of up to MaxDiffLines lines, in a build with or
\* without overflow checks.
InitDiff ==
    /\ fn_in \in [op : {"parse_unified_diff"}, lines : DiffTexts, checked : BOOLEAN]
    /\ fn_out = [returned |-> FALSE, panic |-> FALSE, files |-> <<>>]
    /\ spawned_with = <<>>
    /\ TrustIdle /\ PtyIdle /\ WsIdle /\ CmdIdle /\ SysIdle /\ ConcIdle /\ LocksIdle

SpecDiff == InitDiff /\ [][DiffNext]_vars

\* The numbers of one side of a hunk, in line order.
RECURSIVE Numbers(_, _)
Numbers(lines, side) ==
    IF lines = <<>> THEN <<>>
    ELSE (IF side = "old" THEN Head(lines).old_lineno ELSE Head(lines).new_lineno)
         \o Numbers(Tail(lines), side)

CountsUpFrom(nums, start) == \A k \in DOMAIN nums : nums[k] = start + k - 1

KindsCarryTheirNumbers(h) ==
    \A n \in DOMAIN h.lines :
        LET l == h.lines[n]
        IN  CASE l.kind = "add" -> l.old_lineno = None /\ l.new_lineno # None
              [] l.kind = "delete" -> l.old_lineno # None /\ l.new_lineno = None
              [] OTHER -> l.kind = "context" /\ l.old_lineno # None /\ l.new_lineno # None

TotalsMatch(f) ==
    /\ f.additions = count_kind(f.hunks, "add")
    /\ f.deletions = count_kind(f.hunks, "delete")

\* The numbers of the hunk stay within a u32.
WithinU32(h) ==
    /\ h.old_start + Len(Numbers(h.lines, "old")) <= MaxLineno + 1
    /\ h.new_start + Len(Numbers(h.lines, "new")) <= MaxLineno + 1

\* C30 as stated: in every hunk add lines carry only a new number, delete
\* lines only an old one, context lines both; old numbers count up by one
\* from old_start and new numbers from new_start; additions and deletions
\* are the numbers of add and delete lines of the file's hunks.
C30_HunkLineNumbers ==
    \A f \in DOMAIN fn_out.files :
        /\ TotalsMatch(fn_out.files[f])
        /\ \A n \in DOMAIN fn_out.files[f].hunks :
               LET h == fn_out.files[f].hunks[n]
               IN  /\ KindsCarryTheirNumbers(h)
                   /\ CountsUpFrom(Numbers(h.lines, "old"), h.old_start)
                   /\ CountsUpFrom(Numbers(h.lines, "new"), h.new_start)

\* C30, amended: the same, the counting for the hunks whose line numbers stay
\* within a u32.
C30_HunkLineNumbersWithinU32 ==
    \A f \in DOMAIN fn_out.files :
        /\ TotalsMatch(fn_out.files[f])
        /\ \A n \in DOMAIN fn_out.files[f].hunks :
               LET h == fn_out.files[f].hunks[n]
               IN  /\ KindsCarryTheirNumbers(h)
                   /\ WithinU32(h) =>
                          /\ CountsUpFrom(Numbers(h.lines, "old"), h.old_start)
                          /\ CountsUpFrom(Numbers(h.lines, "new"), h.new_start)

\* A hunk from line 1/2 with a context line and an added line.
C30_Witness ==
    /\ fn_in.op = "parse_unified_diff"
    /\ fn_out.returned
    /\ Len(fn_out.files) = 1
    /\ Len(fn_out.files[1].hunks) = 1
    /\ fn_out.files[1].hunks[1].old_start = 1
    /\ fn_out.files[1].hunks[1].lines =
           << hunk_line("context", 1, 2), hunk_line("add", 1, 3) >>
    /\ fn_out.files[1].additions = 1

(***************************************************************************)
(* run_snippet_v2 after it returned Ok: the background thread, the child   *)
(* and the two output-streaming threads (SpecSnippet)                      *)
(***************************************************************************)
\* Lines the child and its descendants write in a run.
MaxOutLines == 2

SnippetStreams == {"stdout", "stderr"}
SnippetWs == "w1"

\* Who can hold the write end of an output pipe: the sh child, and a process
\* it started that inherited the descriptor.
PipeWriters == {"child", "descendant"}

\* ExitStatus::code(): Some(code), or None for a child ended by a signal.
ExitStatuses == {<<0>>, <<1>>, None}

\* child.wait().map(|status| status.code().unwrap_or(-1)).unwrap_or(-1)
exit_code(status) == IF status = None THEN -1 ELSE status[1]

NoRun ==
    [pc |-> "idle", child |-> "none", status |-> None,
     writers |-> [s \in SnippetStreams |-> {}],
     pending |-> [s \in SnippetStreams |-> 0],
     written |-> 0,
     reader |-> [s \in SnippetStreams |-> "none"],
     batch |-> [s \in SnippetStreams |-> 0],
     inherited |-> {},
     events |-> <<>>]

snippetRest == <<trustVars, ptyVars, wsVars, cmdVars, concVars, lockVars, fnVars,
                 secret_store, git_repo>>

\* run_snippet_v2 past its checks: the header is emitted, the thread is
\* started and Ok(()) is returned.
RunSnippetOk ==
    /\ snippet_run.pc = "idle"
    /\ snippet_run' = [snippet_run EXCEPT
           !.pc = "guard",
           !.events = Append(@, SnippetOutput(SnippetWs, "header"))]
    /\ UNCHANGED snippetRest

\* The thread's guard: on abort a message and snippet-complete -1.
RunGuard(abort) ==
    /\ snippet_run.pc = "guard"
    /\ snippet_run' = IF abort
           THEN [snippet_run EXCEPT
                    !.pc = "done",
                    !.events = @ \o <<SnippetOutput(SnippetWs, "aborted"),
                                      SnippetComplete(SnippetWs, -1)>>]
           ELSE [snippet_run EXCEPT !.pc = "spawn"]
    /\ UNCHANGED snippetRest

\* Command::new("sh").spawn(): on Ok the two streaming threads are started over
\* the child's pipes; on Err a message and snippet-complete -1.  inherited:
\* the pipes whose write end a process started by the child holds as well.
RunSpawn(ok, inherited) ==
    /\ snippet_run.pc = "spawn"
    /\ snippet_run' = IF ok
           THEN [snippet_run EXCEPT
                    !.pc = "join_stdout",
                    !.child = "running",
                    !.inherited = inherited,
                    !.writers = [s \in SnippetStreams |->
                                    IF s \in inherited THEN PipeWriters ELSE {"child"}],
                    !.reader = [s \in SnippetStreams |-> "reading"]]
           ELSE [snippet_run EXCEPT
                    !.pc = "done",
                    !.events = @ \o <<SnippetOutput(SnippetWs, "failed to start"),
                                      SnippetComplete(SnippetWs, -1)>>]
    /\ UNCHANGED snippetRest

\* A process that holds the write end of a pipe writes a line to it.
PipeWrite(s) ==
    /\ snippet_run.writers[s] # {}
    /\ snippet_run.reader[s] = "reading"
    /\ snippet_run.written < MaxOutLines
    /\ snippet_run' = [snippet_run EXCEPT !.pending[s] = @ + 1, !.written = @ + 1]
    /\ UNCHANGED snippetRest

\* The sh child terminates: its write ends are closed.
SnippetChildExit(status) ==
    /\ snippet_run.child = "running"
    /\ snippet_run' = [snippet_run EXCEPT
           !.child = "exited", !.status = status,
           !.writers = [s \in SnippetStreams |-> @[s] \ {"child"}]]
    /\ UNCHANGED snippetRest

\* The process the child started terminates (or closes its output).
DescendantExit ==
    /\ \E s \in SnippetStreams : "descendant" \in snippet_run.writers[s]
    /\ snippet_run' = [snippet_run EXCEPT
           !.writers = [s \in SnippetStreams |-> @[s] \ {"descendant"}]]
    /\ UNCHANGED snippetRest

\* stream_output: a line is read and pushed to the batch; the batch is
\* emitted when 16 ms have passed or it is longer than 4096 bytes (due).
StreamLine(s, due) ==
    /\ snippet_run.reader[s] = "reading"
    /\ snippet_run.pending[s] > 0
    /\ snippet_run' = IF due
           THEN [snippet_run EXCEPT
                    !.pending[s] = @ - 1, !.batch[s] = 0,
                    !.events = Append(@, SnippetOutput(SnippetWs, "chunk"))]
           ELSE [snippet_run EXCEPT !.pending[s] = @ - 1, !.batch[s] = @ + 1]
    /\ UNCHANGED snippetRest

\* stream_output leaves its loop and emits what is left in the batch.
stream_end(s) ==
    [snippet_run EXCEPT
        !.reader[s] = "done", !.batch[s] = 0,
        !.events = IF snippet_run.batch[s] > 0
                   THEN Append(@, SnippetOutput(SnippetWs, "chunk")) ELSE @]

\* stream_output: lines() ends, every write end of the pipe being closed.
StreamEof(s) ==
    /\ snippet_run.reader[s] = "reading"
    /\ snippet_run.pending[s] = 0
    /\ snippet_run.writers[s] = {}
    /\ snippet_run' = stream_end(s)
    /\ UNCHANGED snippetRest

\* stream_output: lines() yields Err (a line that is not UTF-8): break.
StreamErr(s) ==
    /\ snippet_run.reader[s] = "reading"
    /\ snippet_run.pending[s] > 0
    /\ snippet_run' = [stream_end(s) EXCEPT !.pending[s] = 0]
    /\ UNCHANGED snippetRest

join_ready_always(s) == TRUE

\* JoinHandle::join returns when the thread has finished.
join_ready(s) == snippet_run.reader[s] = "done"

\* stdout_handle.join(), then stderr_handle.join().
RunJoin ==
    /\ \/ /\ snippet_run.pc = "join_stdout"
          /\ join_ready("stdout")
          /\ snippet_run' = [snippet_run EXCEPT !.pc = "join_stderr"]
       \/ /\ snippet_run.pc = "join_stderr"
          /\ join_ready("stderr")
          /\ snippet_run' = [snippet_run EXCEPT !.pc = "wait"]
    /\ UNCHANGED snippetRest

\* child.wait(), the footer and snippet-complete with the exit code.
RunWait ==
    /\ snippet_run.pc = "wait"
    /\ snippet_run.child = "exited"
    /\ snippet_run' = [snippet_run EXCEPT
           !.pc = "done",
           !.events = @ \o <<SnippetOutput(SnippetWs, "footer"),
                             SnippetComplete(SnippetWs, exit_code(snippet_run.status))>>]
    /\ UNCHANGED snippetRest

SnippetInit ==
    /\ snippet_run = NoRun
    /\ secret_store = <<>>
    /\ git_repo = <<>>

SnippetNext ==
    \/ RunSnippetOk
    \/ \E abort \in BOOLEAN : RunGuard(abort)
    \/ \E ok \in BOOLEAN, inherited \in SUBSET SnippetStreams : RunSpawn(ok, inherited)
    \/ \E s \in SnippetStreams : PipeWrite(s)
    \/ \E status \in ExitStatuses : SnippetChildExit(status)
    \/ DescendantExit
    \/ \E s \in SnippetStreams, due \in BOOLEAN : StreamLine(s, due)
    \/ \E s \in SnippetStreams : StreamEof(s)
    \/ \E s \in SnippetStreams : StreamErr(s)
    \/ RunJoin
    \/ RunWait

InitSnippet ==
    /\ SnippetInit
    /\ TrustIdle /\ PtyIdle /\ WsIdle /\ CmdIdle /\ ConcIdle /\ LocksIdle /\ FnIdle

\* The child terminates (the claim's premise) and every thread of the
\* application runs; nothing makes a process started by the child end.
SnippetFairness ==
    /\ WF_vars(\E status \in ExitStatuses : SnippetChildExit(status))
    /\ WF_vars(\E abort \in BOOLEAN : RunGuard(abort))
    /\ WF_vars(\E ok \in BOOLEAN, inherited \in SUBSET SnippetStreams : RunSpawn(ok, inherited))
    /\ \A s \in SnippetStreams :
           /\ WF_vars(\E due \in BOOLEAN : StreamLine(s, due) \/ StreamErr(s))
           /\ WF_vars(StreamEof(s))
    /\ WF_vars(RunJoin)
    /\ WF_vars(RunWait)

SpecSnippet == InitSnippet /\ [][SnippetNext]_vars /\ SnippetFairness

CompleteAt(events) == {i \in DOMAIN events : events[i].name = "snippet-complete"}

\* At most one snippet-complete, as the last event, with the code of the run.
CompleteOnceAndLast ==
    LET ev == snippet_run.events
    IN  /\ Cardinality(CompleteAt(ev)) <= 1
        /\ CompleteAt(ev) \subseteq {Len(ev)}
        /\ snippet_run.pc = "done" => CompleteAt(ev) = {Len(ev)}
        /\ CompleteAt(ev) # {} =>
               /\ snippet_run.pc = "done"
               /\ \A s \in SnippetStreams : snippet_run.reader[s] \in {"none", "done"}

\* C31: a call that returned Ok leads to one snippet-complete event, which is
\* the last event of the run, emitted after both streaming threads have ended,
\* and carries the exit code of the child, or -1 when the guard aborted or the
\* spawn failed.
C31_OneCompleteAfterOutput ==
    /\ [](/\ CompleteOnceAndLast
          /\ CompleteAt(snippet_run.events) # {} =>
                 snippet_run.events[Len(snippet_run.events)].code =
                     IF snippet_run.child = "exited"
                     THEN exit_code(snippet_run.status) ELSE -1)
    /\ (snippet_run.pc # "idle" ~> CompleteAt(snippet_run.events) # {})

\* No process started by the child holds a pipe of the run open.
PipesReleased ==
    \A s \in SnippetStreams : "descendant" \notin snippet_run.writers[s]

\* C31, amended: the same when every process holding the child's output pipes
\* lets go of them.
C31_OneCompleteOncePipesClose ==
    /\ [](/\ CompleteOnceAndLast
          /\ CompleteAt(snippet_run.events) # {} =>
                 snippet_run.events[Len(snippet_run.events)].code =
                     IF snippet_run.child = "exited"
                     THEN exit_code(snippet_run.status) ELSE -1)
    /\ ([]<>PipesReleased =>
            (snippet_run.pc # "idle" ~> CompleteAt(snippet_run.events) # {}))

\* A run whose child wrote to both pipes and exited with code 1: two chunks,
\* the footer and snippet-complete 1.
C31_Witness ==
    /\ snippet_run.pc = "done"
    /\ snippet_run.child = "exited"
    /\ snippet_run.status = <<1>>
    /\ Len(snippet_run.events) = 5
    /\ snippet_run.events[2].text = "chunk"
    /\ snippet_run.events[3].text = "chunk"
    /\ snippet_run.events[5] = SnippetComplete(SnippetWs, 1)

(***************************************************************************)
(* keychain.rs: KeychainStore behind its mutex (SpecSecrets)               *)
(***************************************************************************)
SecretKeys == {"k1", "k2", "k3"}
SecretValues == {"v1", "v2"}
NoSecret == "NoSecret"

secretRest == <<trustVars, ptyVars, wsVars, cmdVars, concVars, lockVars, fnVars,
                snippet_run, git_repo>>

\* keys.contains(&key.to_string())
index_contains(keys, key) == \E i \in DOMAIN keys : keys[i] = key

add_to_index_always_push(keys, key) == Append(keys, key)

\* add_to_index: the list saved, or the list on disk when nothing is saved.
add_to_index(keys, key) ==
    IF index_contains(keys, key) THEN keys ELSE Append(keys, key)

\* remove_from_index: keys.retain(|k| k != key).
remove_from_index(keys, key) == SelectSeq(keys, LAMBDA k : k # key)

\* KeychainStore::get
secret_get(key) == secret_store.cache[key]

\* KeychainStore::set.  keychain_ok: set_generic_password succeeded; save_ok:
\* save_index succeeded (it is called only for a key the index lacks).
SecretSet(key, value, keychain_ok, save_ok) ==
    /\ secret_store' =
           IF ~keychain_ok
           THEN [secret_store EXCEPT
                    !.last = [op |-> "set", key |-> key, value |-> value,
                              result |-> "keychain write error"]]
           ELSE LET saved == index_contains(secret_store.index, key) \/ save_ok
                IN  [secret_store EXCEPT
                        !.keychain[key] = value,
                        !.cache[key] = value,
                        !.index = IF saved THEN add_to_index(@, key) ELSE @,
                        !.set_last[key] = IF saved THEN value ELSE @,
                        !.inserted = IF saved /\ key \notin {@[i] : i \in DOMAIN @}
                                     THEN Append(@, key) ELSE @,
                        !.clean = @ /\ saved,
                        !.last = [op |-> "set", key |-> key, value |-> value,
                                  result |-> IF saved THEN "Ok" ELSE "write index error"]]
    /\ UNCHANGED secretRest

\* KeychainStore::delete.  The result of delete_generic_password is dropped.
SecretDelete(key, keychain_ok, save_ok) ==
    /\ secret_store' =
           [secret_store EXCEPT
               !.keychain[key] = IF keychain_ok THEN NoSecret ELSE @,
               !.cache[key] = NoSecret,
               !.index = IF save_ok THEN remove_from_index(@, key) ELSE @,
               !.set_last[key] = IF save_ok THEN NoSecret ELSE @,
               !.inserted = IF save_ok THEN SelectSeq(@, LAMBDA k : k # key) ELSE @,
               !.clean = @ /\ save_ok,
               !.last = [op |-> "delete", key |-> key, value |-> NoSecret,
                         result |-> IF save_ok THEN "Ok" ELSE "write index error"]]
    /\ UNCHANGED secretRest

\* KeychainStore::load with no index file: an empty cache.  set_last, inserted
\* and clean are history: the value of the last successful set of each key not
\* followed by a successful delete, the keys in the order of those sets' first,
\* and whether every call so far succeeded or failed at the keychain write.
SecretsInit ==
    /\ secret_store =
           [keychain |-> [k \in SecretKeys |-> NoSecret],
            cache |-> [k \in SecretKeys |-> NoSecret],
            index |-> <<>>,
            set_last |-> [k \in SecretKeys |-> NoSecret],
            inserted |-> <<>>,
            clean |-> TRUE,
            last |-> [op |-> "none", key |-> "k1", value |-> NoSecret, result |-> "Ok"]]
    /\ snippet_run = <<>>
    /\ git_repo = <<>>

SecretsNext ==
    \/ \E k \in SecretKeys, v \in SecretValues, keychain_ok, save_ok \in BOOLEAN :
           SecretSet(k, v, keychain_ok, save_ok)
    \/ \E k \in SecretKeys, keychain_ok, save_ok \in BOOLEAN :
           SecretDelete(k, keychain_ok, save_ok)

InitSecrets ==
    /\ SecretsInit
    /\ TrustIdle /\ PtyIdle /\ WsIdle /\ CmdIdle /\ ConcIdle /\ LocksIdle /\ FnIdle

SpecSecrets == InitSecrets /\ [][SecretsNext]_vars

CachedKeys == {k \in SecretKeys : secret_store.cache[k] # NoSecret}
IndexedKeys == {secret_store.index[i] : i \in DOMAIN secret_store.index}

C33_RepoSnippetNeverSkipsTrust ==
    (cmd.op = "run_snippet_v2" /\ cmd.from_repo /\ cmd.ran # <<>>) =>
        cmd.trust = Trusted

(***************************************************************************)
(* run_snippet_v2 on a repo whose snippets.json has been granted, while    *)
(* the file is rewritten on disk (SpecRunV2)                               *)
(***************************************************************************)
\* The snippets.json the grant was given for: sn runs cmd1.
GrantedSnippets == [kind |-> "doc", cmds |-> [n \in SnippetNames |-> "cmd1"]]

\* One repo with a granted snippets.json and one Running workspace on it; no
\* grant_trust is called afterwards.
RunV2Init ==
    /\ files = [r \in CmdRepos |-> [config |-> "cfgN", snippets |-> GrantedSnippets]]
    /\ repo_configs = [r \in CmdRepos |-> "cfgN"]
    /\ trust_store = [trust_all_repos |-> FALSE,
                      repos |-> [r \in CmdRepos |-> grant_entry(r)]]
    /\ granted = [r \in CmdRepos |-> files[r]]
    /\ revoked = {}
    /\ last_status = NoStatus
    /\ sessions = [id \in CmdWorkspaceIds |-> NoSession]
    /\ procs = <<>>
    /\ pty_last = NoCall
    /\ workspaces = [id \in CmdWorkspaceIds |->
                        [NewWorkspace(id, "b1") EXCEPT !.state = "Running"]]
    /\ ws_used = CmdWorkspaceIds
    /\ merging = {}
    /\ ws_last = NoCall
    /\ global_snippets \in {NoSnippets, [n \in SnippetNames |-> "cmd2"]}
    /\ cmd = NoCommand

RunV2Next ==
    \/ \E id \in DOMAIN workspaces, n \in SnippetNames : V2Begin(id, n)
    \/ V2IsRepo
    \/ V2CheckTrust
    \/ V2EmitHeader
    \/ V2Guard
    \/ \E ok \in BOOLEAN : V2Spawn(ok)
    \/ \E code \in ExitCodes : V2Exit(code)
    \/ \E r \in Repos, c \in CmdSnippetsContents : WriteSnippetsFile(r, c)

InitRunV2 == RunV2Init /\ AuxIdle

SpecRunV2 == InitRunV2 /\ [][RunV2Next]_vars

\* The snippets.json content the recorded grant of a repo was given for.
GrantedContent(r) == trust_store.repos[r].snippets_hash[2]

\* C34: a repo-level command that run_snippet_v2 has executed after its trust
\* check is the command the snippet has in the snippets.json content whose
\* hash the grant records.
C34_ExecutedCommandWasGranted ==
    (cmd.op = "run_snippet_v2" /\ cmd.from_repo /\ cmd.is_repo /\ cmd.ran # <<>>) =>
        /\ trust_store.repos[cmd.repo].snippets_hash # None
        /\ GrantedContent(cmd.repo).cmds[cmd.name] = cmd.command

(***************************************************************************)
(* The workspace commands of commands.rs over the PTY registry and the     *)
(* workspace registry, lock block by lock block (SpecLifecycle)            *)
(***************************************************************************)
LifeCallers == {"c1", "c2"}
LifeIds == {"w1"}

LifeCommands ==
    {"create_workspace", "run_setup_and_start_agent", "start_agent_no_setup",
     "switch_agent_model", "stop_workspace", "remove_workspace", "discard_workspace"}

\* A caller between two commands.  killed: the session the command's kill
\* block took out of the registry.
NoInvocation ==
    [op |-> "none", id |-> "none", pc |-> "idle", result |-> "none", killed |-> NoSession]

lifeRest == <<trustVars, merging, cmdVars, concVars, lock_owner, pty_registered,
              fnVars, sysVars>>

\* The first block of each command.
first_block(op) ==
    CASE op = "create_workspace" -> "create"
      [] op \in {"run_setup_and_start_agent", "start_agent_no_setup",
                 "switch_agent_model"} -> "ctx"
      [] OTHER -> "kill"

\* A command is invoked.
LcBegin(c, op, id) ==
    /\ threads[c].pc = "idle"
    /\ threads' = [threads EXCEPT ![c] =
           [op |-> op, id |-> id, pc |-> first_block(op), result |-> "none",
            killed |-> NoSession]]
    /\ UNCHANGED <<ptyVars, workspaces, ws_used, ws_last, lifeRest>>

\* create_workspace: ws_manager.create(...)?, under the workspace lock.
LcCreate(c, o) ==
    /\ threads[c].pc = "create"
    /\ ws_create(threads[c].id, "b1", o)
    /\ threads' = [threads EXCEPT ![c] =
           IF o = "Ok" THEN [@ EXCEPT !.pc = "trust"]
           ELSE [@ EXCEPT !.pc = "idle", !.result = o]]
    /\ UNCHANGED <<ptyVars, lifeRest>>

\* create_workspace: with a setup script and a status other than Trusted,
\* trust-required is emitted and the record returned; otherwise the setup
\* script runs (if any) and the agent is spawned.
LcTrust(c, trust_required) ==
    /\ threads[c].pc = "trust"
    /\ threads' = [threads EXCEPT ![c] =
           IF trust_required THEN [@ EXCEPT !.pc = "idle", !.result = "Ok"]
           ELSE [@ EXCEPT !.pc = "spawn"]]
    /\ UNCHANGED <<ptyVars, workspaces, ws_used, ws_last, lifeRest>>

\* get_workspace_context(ws_mgr, workspace_id)?: the record exists, in any state.
LcContext(c) ==
    /\ threads[c].pc = "ctx"
    /\ threads' = [threads EXCEPT ![c] =
           IF workspaces[threads[c].id] = NoWorkspace
           THEN [@ EXCEPT !.pc = "idle", !.result = "NotFound"]
           ELSE [@ EXCEPT !.pc =
                    CASE threads[c].op = "switch_agent_model" -> "kill"
                      [] threads[c].op = "discard_workspace" -> "git"
                      [] OTHER -> "spawn"]]
    /\ UNCHANGED <<ptyVars, workspaces, ws_used, ws_last, lifeRest>>

\* The block that locks the PTY registry and calls kill(workspace_id).
LcKill(c) ==
    /\ threads[c].pc = "kill"
    /\ pty_kill(threads[c].id)
    /\ threads' = [threads EXCEPT ![c] =
           [@ EXCEPT !.killed = sessions[threads[c].id],
                     !.pc = CASE threads[c].op = "switch_agent_model" -> "spawn"
                              [] threads[c].op = "stop_workspace" -> "stop"
                              [] threads[c].op = "remove_workspace" -> "remove"
                              [] OTHER -> "stop"]]
    /\ UNCHANGED <<workspaces, ws_used, ws_last, lifeRest>>

\* resolve_and_spawn_agent: the agent is resolved (or unknown), then spawn
\* under the PTY registry lock.
LcSpawn(c, agent_ok, io_ok) ==
    /\ threads[c].pc = "spawn"
    /\ IF ~agent_ok
       THEN /\ threads' = [threads EXCEPT ![c].pc = "idle", ![c].result = "UnknownAgent"]
            /\ UNCHANGED ptyVars
       ELSE /\ spawn_result(threads[c].id, io_ok) = "Ok" => Len(procs) < MaxSpawns
            /\ pty_spawn(threads[c].id, io_ok)
            /\ threads' = [threads EXCEPT
                   ![c].pc = "idle", ![c].result = spawn_result(threads[c].id, io_ok)]
    /\ UNCHANGED <<workspaces, ws_used, ws_last, lifeRest>>

\* stop_workspace: ws.stop(&workspace_id); discard_workspace: let _ = ws.stop(..)
\* and then the workspace context.
LcStop(c) ==
    /\ threads[c].pc = "stop"
    /\ ws_stop(threads[c].id)
    /\ threads' = [threads EXCEPT ![c] =
           IF @.op = "discard_workspace" THEN [@ EXCEPT !.pc = "ctx"]
           ELSE [@ EXCEPT !.pc = "idle",
                          !.result = IF workspaces[threads[c].id] = NoWorkspace
                                     THEN "NotFound" ELSE "Ok"]]
    /\ UNCHANGED <<ptyVars, lifeRest>>

\* discard_workspace: detect_worktree_branch(..)? and discard_worktree(..)?.
LcDiscardGit(c, ok) ==
    /\ threads[c].pc = "git"
    /\ threads' = [threads EXCEPT ![c] =
           IF ok THEN [@ EXCEPT !.pc = "remove"]
           ELSE [@ EXCEPT !.pc = "idle", !.result = "GitError"]]
    /\ UNCHANGED <<ptyVars, workspaces, ws_used, ws_last, lifeRest>>

\* remove_workspace, discard_workspace: ws.remove(&workspace_id).
LcRemove(c, o) ==
    /\ threads[c].pc = "remove"
    /\ ws_remove(threads[c].id, o)
    /\ threads' = [threads EXCEPT ![c] =
           [@ EXCEPT !.pc = "idle",
                     !.result = IF remove_check(threads[c].id) # "Ok"
                                THEN remove_check(threads[c].id) ELSE o]]
    /\ UNCHANGED <<ptyVars, lifeRest>>

LifecycleInit ==
    /\ sessions = [id \in LifeIds |-> NoSession]
    /\ procs = <<>>
    /\ pty_last = NoCall
    /\ workspaces = [id \in LifeIds |-> NoWorkspace]
    /\ ws_used = {}
    /\ merging = {}
    /\ ws_last = NoCall
    /\ threads = [c \in LifeCallers |-> NoInvocation]
    /\ lock_owner = <<>>
    /\ pty_registered = {}

LifecycleNext ==
    \/ \E c \in LifeCallers, op \in LifeCommands, id \in LifeIds : LcBegin(c, op, id)
    \/ \E c \in LifeCallers, o \in CreateOutcomes : LcCreate(c, o)
    \/ \E c \in LifeCallers, trust_required \in BOOLEAN : LcTrust(c, trust_required)
    \/ \E c \in LifeCallers : LcContext(c)
    \/ \E c \in LifeCallers : LcKill(c)
    \/ \E c \in LifeCallers, agent_ok, io_ok \in BOOLEAN : LcSpawn(c, agent_ok, io_ok)
    \/ \E c \in LifeCallers : LcStop(c)
    \/ \E c \in LifeCallers, ok \in BOOLEAN : LcDiscardGit(c, ok)
    \/ \E c \in LifeCallers, o \in RemoveOutcomes : LcRemove(c, o)

InitLifecycle ==
    /\ LifecycleInit
    /\ TrustIdle /\ CmdIdle /\ ConcIdle /\ FnIdle /\ SysIdle

SpecLifecycle == InitLifecycle /\ [][LifecycleNext]_vars

\* C35: the PTY registry holds a session for a workspace id only if the
\* workspace registry holds a record for that id in state Running.
C35_SessionOnlyForRunning ==
    \A id \in DOMAIN sessions :
        sessions[id] # NoSession =>
            /\ workspaces[id] # NoWorkspace
            /\ workspaces[id].state = "Running"

\* C36: a remove_workspace that remove rejects (Running workspace, unknown
\* id) has changed nothing: the record and its state are as before and the
\* call has taken no session out of the PTY registry.
C36_RejectedRemoveHasNoEffect ==
    [][\A c \in LifeCallers :
           (/\ threads[c].op = "remove_workspace"
            /\ threads[c].pc = "remove"
            /\ threads'[c].result \in {"RunningWorkspace", "NotFound"}) =>
               /\ workspaces' = workspaces
               /\ threads[c].killed = NoSession]_vars

(***************************************************************************)
(* Claims on switch_agent_model when it fails (SpecSwitch)                 *)
(***************************************************************************)
\* C37: when switch_agent_model(id, m) returns an error, the session that id
\* had when the call began is still registered and alive.
C37_FailedSwitchKeepsSession ==
    [][(/\ fn_in.op = "switch_agent_model"
        /\ fn_in.pc # "done"
        /\ fn_in'.pc = "done"
        /\ fn_out'.result # "Ok"
        /\ fn_in'.old # NoSession) =>
           /\ sessions'[fn_in'.id] = fn_in'.old
           /\ procs'[fn_in'.old].alive]_vars

(***************************************************************************)
(* git_ops.rs: merge_branch, git command by git command (SpecMerge)        *)
(***************************************************************************)
MergeStrategies == {"Merge", "Squash", "Rebase"}
MergeFiles == {"a.rs", "b.rs", "c.rs"}

mergeRest == <<trustVars, ptyVars, wsVars, cmdVars, concVars, lockVars, fnVars,
               snippet_run, secret_store>>

\* What merge_branch does after the failed step, in the order of the code:
\* Merge and Squash collect the conflicts and then abort (merge --abort; reset
\* HEAD and checkout .); Rebase runs rebase --abort and then collects.
failure_steps(strategy) ==
    IF strategy = "Rebase" THEN <<"abort", "collect">> ELSE <<"collect", "abort">>

\* The operation git leaves in progress when the step stops on conflicts
\* (merge --squash records no MERGE_HEAD: only the index holds the conflict).
in_progress_of(strategy) ==
    CASE strategy = "Merge" -> "merge"
      [] strategy = "Rebase" -> "rebase"
      [] OTHER -> "none"

MergeResult(success, merge_sha, conflicts) ==
    [kind |-> "Ok", success |-> success, merge_sha |-> merge_sha, conflicts |-> conflicts]

\* Rebase: git worktree list and find_worktree_path; None is an error.
MbFindWorktree ==
    /\ git_repo.pc = "start"
    /\ git_repo.strategy = "Rebase"
    /\ git_repo' = IF git_repo.found
                   THEN [git_repo EXCEPT !.pc = "step"]
                   ELSE [git_repo EXCEPT !.pc = "done",
                                         !.result = [kind |-> "Err"]]
    /\ UNCHANGED mergeRest

\* git merge, git merge --squash (after checkout of the base branch) or
\* git rebase: success, or a stop on the files both sides changed.
MbStep ==
    /\ \/ git_repo.pc = "start" /\ git_repo.strategy # "Rebase"
       \/ git_repo.pc = "step"
    /\ git_repo' =
           IF git_repo.both_changed = {}
           THEN [git_repo EXCEPT !.pc = "done",
                                 !.result = MergeResult(TRUE, <<"sha">>, {})]
           ELSE [git_repo EXCEPT !.pc = "failed",
                                 !.todo = failure_steps(git_repo.strategy),
                                 !.unmerged = git_repo.both_changed,
                                 !.in_progress = in_progress_of(git_repo.strategy)]
    /\ UNCHANGED mergeRest

\* collect_conflicts: git diff --name-only --diff-filter=U, now.
MbCollect ==
    /\ git_repo.pc = "failed"
    /\ git_repo.todo # <<>>
    /\ Head(git_repo.todo) = "collect"
    /\ git_repo' = [git_repo EXCEPT !.todo = Tail(@), !.conflicts = git_repo.unmerged]
    /\ UNCHANGED mergeRest

\* merge --abort, rebase --abort, or reset HEAD and checkout .
MbAbort ==
    /\ git_repo.pc = "failed"
    /\ git_repo.todo # <<>>
    /\ Head(git_repo.todo) = "abort"
    /\ git_repo' = [git_repo EXCEPT !.todo = Tail(@), !.unmerged = {},
                                    !.in_progress = "none"]
    /\ UNCHANGED mergeRest

\* Ok(MergeResult { success: false, merge_sha: None, conflicts, .. })
MbReturnConflicts ==
    /\ git_repo.pc = "failed"
    /\ git_repo.todo = <<>>
    /\ git_repo' = [git_repo EXCEPT
           !.pc = "done", !.result = MergeResult(FALSE, None, git_repo.conflicts)]
    /\ UNCHANGED mergeRest

MergeNext ==
    \/ MbFindWorktree
    \/ MbStep
    \/ MbCollect
    \/ MbAbort
    \/ MbReturnConflicts

\* A call of merge_branch with any strategy, on branches that changed any set
\* of files on both sides.
InitMerge ==
    /\ git_repo \in [strategy : MergeStrategies, both_changed : SUBSET MergeFiles,
                     found : BOOLEAN, pc : {"start"}, todo : {<<>>},
                     unmerged : {{}}, in_progress : {"none"}, conflicts : {{}},
                     result : {[kind |-> "none"]}]
    /\ snippet_run = <<>>
    /\ secret_store = <<>>
    /\ TrustIdle /\ PtyIdle /\ WsIdle /\ CmdIdle /\ ConcIdle /\ LocksIdle /\ FnIdle

SpecMerge == InitMerge /\ [][MergeNext]_vars

\* C38: a merge_branch whose merge, squash or rebase step stopped on conflicts
\* returns success = false, no merge_sha and the files that were unmerged when
\* the step stopped, and leaves no merge or rebase in progress.
C38_ConflictsAreReported ==
    (git_repo.pc = "done" /\ git_repo.result.kind = "Ok" /\ git_repo.both_changed # {}) =>
        /\ ~git_repo.result.success
        /\ git_repo.result.merge_sha = None
        /\ git_repo.result.conflicts = git_repo.both_changed
        /\ git_repo.in_progress = "none"
        /\ git_repo.unmerged = {}

(***************************************************************************)
(* Claims on the liveness cell of a respawned session (SpecPty)            *)
(***************************************************************************)
\* C39: a reader thread that ends clears the liveness cell of its own session
\* and of no other; is_alive(id) of a registered session stays true until that
\* session's own reader ends or the session is killed.
C39_OldReaderLeavesNewSessionAlive ==
    [][/\ \A s \in DOMAIN procs :
              (procs[s].reader = "flushed" /\ procs'[s].reader = "marked") =>
                  \A t \in DOMAIN procs \ {s} : procs'[t].alive = procs[t].alive
       /\ \A id \in DOMAIN sessions :
              is_alive(id) =>
                  \/ sessions'[id] = sessions[id] /\ procs'[sessions[id]].alive
                  \/ pty_last'.op = "kill" /\ pty_last'.id = id
                  \/ /\ procs[sessions[id]].reader = "flushed"
                     /\ procs'[sessions[id]].reader = "marked"]_vars

\* A workspace id killed and spawned again: the first session's reader has
\* ended, the second session is registered, alive and still read.
C39_Witness ==
    \E id \in DOMAIN sessions :
        /\ Len(procs) >= 2
        /\ procs[1].id = id
        /\ procs[1].reader = "done"
        /\ sessions[id] = 2
        /\ procs[2].reader = "reading"
        /\ is_alive(id)

(***************************************************************************)
(* git_ops.rs: find_worktree_path (SpecFind)                               *)
(***************************************************************************)
\* Lines of a `git worktree list --porcelain` output in one call.
MaxPorcelainLines == 4

\* A line is the sequence of its pieces, a branch name too: "feature" is
\* "feat" followed by "ure".
WorktreeLine(path) == <<"worktree ", path>>
BranchLine(name) == <<"branch ", "refs/heads/">> \o name
PorcelainBranches == {<<"feat">>, <<"feat", "ure">>}
PorcelainLines ==
    {WorktreeLine(p) : p \in {"/repo", "/repo/.worktrees/x"}}
    \cup {BranchLine(b) : b \in PorcelainBranches}
    \cup {<<>>}
PorcelainTexts ==
    UNION {[1..n -> PorcelainLines] : n \in 0..MaxPorcelainLines}

\* str::starts_with
str_starts_with(line, prefix) ==
    Len(line) >= Len(prefix) /\ SubSeq(line, 1, Len(prefix)) = prefix

\* str::strip_prefix: Some(rest) or None.
strip_prefix(line, prefix) ==
    IF str_starts_with(line, prefix)
    THEN <<SubSeq(line, Len(prefix) + 1, Len(line))>> ELSE None

\* str::contains: the pattern occurs somewhere in the line.
str_contains(line, pattern) ==
    \E i \in 0..(Len(line) - Len(pattern)) :
        SubSeq(line, i + 1, i + Len(pattern)) = pattern

RECURSIVE find_from(_, _, _, _)
\* The loop of find_worktree_path from line i on.
find_from(lines, i, current_path, branch) ==
    IF i > Len(lines) THEN None
    ELSE IF strip_prefix(lines[i], <<"worktree ">>) # None
    THEN find_from(lines, i + 1, strip_prefix(lines[i], <<"worktree ">>), branch)
    ELSE IF str_starts_with(lines[i], <<"branch ">>) /\ str_contains(lines[i], branch)
    THEN current_path
    ELSE IF lines[i] = <<>>
    THEN find_from(lines, i + 1, None, branch)
    ELSE find_from(lines, i + 1, current_path, branch)

find_worktree_path(porcelain_output, branch) ==
    find_from(porcelain_output, 1, None, branch)

\* find_worktree_path runs on the text it was given.
FindWorktreePath ==
    /\ fn_in.op = "find_worktree_path"
    /\ ~fn_out.returned
    /\ fn_out' = [returned |-> TRUE,
                  path |-> find_worktree_path(fn_in.lines, fn_in.branch)]
    /\ UNCHANGED <<fn_in, spawned_with, trustVars, ptyVars, wsVars, cmdVars, sysVars,
                   concVars, lockVars>>

FindNext == FindWorktreePath

InitFind ==
    /\ fn_in \in [op : {"find_worktree_path"}, lines : PorcelainTexts,
                  branch : PorcelainBranches]
    /\ fn_out = [returned |-> FALSE, path |-> None]
    /\ spawned_with = <<>>
    /\ TrustIdle /\ PtyIdle /\ WsIdle /\ CmdIdle /\ SysIdle /\ ConcIdle /\ LocksIdle

SpecFind == InitFind /\ [][FindNext]_vars

\* The lines that are the branch line of exactly this branch.
ExactBranchAt(lines, branch) == {i \in DOMAIN lines : lines[i] = BranchLine(branch)}

\* The worktree lines of the block line i is in, before line i.
BlockWorktreesBefore(lines, i) ==
    {j \in 1..(i - 1) :
        /\ str_starts_with(lines[j], <<"worktree ">>)
        /\ \A k \in j..i : lines[k] # <<>>}

Least(S) == CHOOSE n \in S : \A k \in S : n <= k
Greatest(S) == CHOOSE n \in S : \A k \in S : n >= k

\* C40: find_worktree_path returns the path of the block whose branch line
\* names exactly the branch (no path when that branch line has no worktree
\* line in its block), and None when no block has that branch.
C40_ExactBranchSelectsPath ==
    fn_out.returned =>
        LET at == ExactBranchAt(fn_in.lines, fn_in.branch)
        IN  IF at = {} THEN fn_out.path = None
            ELSE LET wts == BlockWorktreesBefore(fn_in.lines, Least(at))
                 IN  fn_out.path =
                         IF wts = {} THEN None
                         ELSE <<<<fn_in.lines[Greatest(wts)][2]>>>>
====
